---- MODULE Spec2Model ----
(***************************************************************************)
(* The bidirectional sync coordinator of the OneKeymap VS Code extension   *)
(* (sync-coordinator.ts): two handlers, onVscodeKeybindingsChanged         *)
(* (native -> shared) and onOnekeymapConfigChanged (shared -> native),     *)
(* and initializeIfNeeded, over the coordinator state `syncing` and        *)
(* `lastWrittenHash`.                                                      *)
(*                                                                         *)
(* Execution model.  The handlers are async functions on the Node event    *)
(* loop.  The code between two awaits runs without interruption, so each   *)
(* such segment is one action.  A transaction suspended at an await on a   *)
(* translation-service call occupies a slot of `tx`; the response (a       *)
(* value or a throw, chosen by the service) resumes it.  The write section *)
(* (syncing = true ... finally) calls the FileSystem collaborator          *)
(* (ensureDir, writeFile); a collaborator may deliver a change             *)
(* notification from inside the call, so handler invocations (and only     *)
(* those) may occur while a transaction is inside its write section.       *)
(***************************************************************************)
EXTENDS Integers, Sequences, FiniteSets, TLC

\* ---------------------------------------------------------------- bounds
\* File contents are 0..MaxContent; 0 is the empty string ''.
MaxContent == 1
\* Number of transactions that may be suspended on a service call at once.
MaxTx == 2

Contents == 0 .. MaxContent
EmptyString == 0
\* files[p] = Missing: the file does not exist (readFile throws, exists() is false).
Missing == -1
Tx == 1 .. MaxTx

\* The Keymap is opaque to the coordinator; it is only passed through.
Keymaps == {"kA", "kB"}
NoKeymap == "undefined"

keybindingsPath == "keybindings.json"
onekeymapPath == "onekeymap.json"
Paths == {keybindingsPath, onekeymapPath}

\* KeymapChanges as the lengths of its add / remove / update sequences;
\* defined = FALSE is `changes === undefined`.
UndefinedChanges == [defined |-> FALSE, add |-> 0, remove |-> 0, update |-> 0]
Changes(a, r, u) == [defined |-> TRUE, add |-> a, remove |-> r, update |-> u]
\* The KeymapChanges values the service answers with in this model.
ServiceChanges == {UndefinedChanges, Changes(0, 0, 0), Changes(1, 0, 2)}
\* Every changes object with at most MaxCount entries per list, and none.
MaxCount == 2
Counts == 0 .. MaxCount
AllChanges == {UndefinedChanges} \cup {Changes(a, r, u) : a \in Counts, r \in Counts, u \in Counts}

VARIABLES
  files,            \* the file system: path -> content, or Missing
  syncing,          \* SyncCoordinator.syncing
  lastWrittenHash,  \* SyncCoordinator.lastWrittenHash: path -> hash, or NoHash
  tx,               \* the transactions suspended at an await / inside the write section
  fresh,            \* the coordinator was constructed and nothing was invoked yet
  overlap,          \* scheduling: may a handler start while a transaction is suspended?
  last,             \* observation: what the invocation that returned in the last step did
  lastWrite,        \* observation: <<path, content>> of a write nothing has followed yet
  notify,           \* pending change notifications (used by SpecLoop only)
  activation,       \* how far activate() has come ("none": the coordinator on its own)
  keymapWatcher     \* the KeymapWatcher of each path: its fields, its handles and timers

vars == <<files, syncing, lastWrittenHash, tx, fresh, overlap, last, lastWrite, notify,
          activation, keymapWatcher>>

\* A KeymapWatcher as constructed: `watcher` and `debounceTimer` undefined
\* (debounceTimer holds the id of a timer, 0 for undefined).
\* handles: the fs.watch handles of it that are open; stale: the open handle
\* is on an inode that was replaced or removed; events: the events fs.watch
\* has raised on the handle and not delivered yet; timers: the timers
\* scheduled and not fired or cleared, each with the delay left.
\* burst: events that scheduled a timer since the last sync invocation;
\* sinceEvent: time since the last of them; invoked: the callback of a timer
\* has invoked the sync since then.
NewWatcher ==
  [watcher |-> "undefined", debounceTimer |-> 0, handles |-> 0, stale |-> FALSE,
   events |-> <<>>, timers |-> {}, burst |-> 0, sinceEvent |-> 0, invoked |-> FALSE]
NoWatchers == [path \in Paths |-> NewWatcher]

\* ------------------------------------------------------- pure functions
\* SHA-256 hex digest: deterministic and collision free on the modelled contents.
contentHash(content) == <<"sha256", content>>
NoHash == <<>>

Join(parts, sep) ==
  IF Len(parts) = 0 THEN ""
  ELSE IF Len(parts) = 1 THEN parts[1]
  ELSE IF Len(parts) = 2 THEN parts[1] \o sep \o parts[2]
  ELSE parts[1] \o sep \o parts[2] \o sep \o parts[3]

formatChangeSummaryKeepsZero(changes) ==
  IF ~changes.defined THEN ""
  ELSE IF changes.add + changes.remove + changes.update = 0 THEN "no changes"
  ELSE Join(<<ToString(changes.add) \o " added",
              ToString(changes.remove) \o " removed",
              ToString(changes.update) \o " updated">>, ", ")

formatChangeSummary(changes) ==
  IF ~changes.defined THEN ""
  ELSE LET parts ==
             (IF changes.add > 0 THEN <<ToString(changes.add) \o " added">> ELSE <<>>)
          \o (IF changes.remove > 0 THEN <<ToString(changes.remove) \o " removed">> ELSE <<>>)
          \o (IF changes.update > 0 THEN <<ToString(changes.update) \o " updated">> ELSE <<>>)
       IN IF Len(parts) > 0 THEN Join(parts, ", ") ELSE "no changes"

\* ------------------------------------------------------ status messages
SyncedFromVscode(summary) == "OneKeymap: Synced from VS Code (" \o summary \o ")"
SyncFailedVscode == "OneKeymap: Sync failed (VS Code -> onekeymap)"
SyncedFromOnekeymap == "OneKeymap: Synced from onekeymap.json"
SyncFailedOnekeymap == "OneKeymap: Sync failed (onekeymap -> VS Code)"

\* ---------------------------------------------------------- guards
\* (mutant) the guard on the flag is missing
SyncingGuardOff == FALSE

\* `if (this.syncing) return;`
SyncingGuard == syncing

\* (mutant) the hash guard never matches
HashGuardNever(path, content) == FALSE

\* (mutant) the hash guard looks up the other file's entry
HashGuardOtherPath(path, content) ==
  \E other \in {"keybindings.json", "onekeymap.json"} \ {path} :
     lastWrittenHash[other] = contentHash(content)

\* `this.lastWrittenHash.get(path) === hash`
HashGuard(path, content) == lastWrittenHash[path] = contentHash(content)

\* (mutant) a response without changes counts as an empty diff
NoStructuralChangeOrAbsent(changes) ==
  ~changes.defined \/ (changes.add = 0 /\ changes.remove = 0 /\ changes.update = 0)

\* (mutant) an empty diff is not recognised
NoStructuralChangeNever(changes) == FALSE

\* `changes && changes.add.length === 0 && changes.remove.length === 0 && changes.update.length === 0`
NoStructuralChange(changes) ==
  changes.defined /\ changes.add = 0 /\ changes.remove = 0 /\ changes.update = 0

\* (mutant) the hash of the content about to be written is not recorded
SetLastWrittenHashNot(path, content) == lastWrittenHash

\* `this.lastWrittenHash.set(path, contentHash(content))`
SetLastWrittenHash(path, content) ==
  [lastWrittenHash EXCEPT ![path] = contentHash(content)]

\* (mutant) the no-structural-change branch does not record the hash
RecordSeenNot(content) == lastWrittenHash

\* the no-structural-change branch: `this.lastWrittenHash.set(this.keybindingsPath, hash)`
RecordSeen(content) == SetLastWrittenHash("keybindings.json", content)

\* (mutant) the flag is not cleared
FinallyKeeps == TRUE

\* the value `finally { this.syncing = false; }` leaves in the flag
FinallyClear == FALSE

\* `this.fileSystem.exists(path)`
Exists(path) == files[path] # Missing

\* (mutant) a failed read goes unnoticed
ReadNeverFails(path) == FALSE

\* `this.fileSystem.readFile(path)` throws
ReadFails(path) == ~Exists(path)

\* (mutant) a response without a keymap is taken as one with a keymap
HasKeymapAlways(keymap) == TRUE

\* `!analyzeResponse.keymap` / `!parseResponse.keymap` is false
HasKeymap(keymap) == keymap # "undefined"

\* (mutant) the generated content is written also when nothing changed
IdenticalNever(newVscodeContent, currentVscodeContent) == FALSE

\* `newVscodeContent === currentVscodeContent`
Identical(newVscodeContent, currentVscodeContent) == newVscodeContent = currentVscodeContent

\* (mutant) initialization does not look at onekeymap.json
NeedsInitializationAnyway == Exists("keybindings.json")

\* (mutant) initialization never runs the sync
NeedsInitializationNever == FALSE

\* `!onekeymapExists && keybindingsExists`
NeedsInitialization == ~Exists("onekeymap.json") /\ Exists("keybindings.json")

\* (mutant) the baseline that was parsed is not handed on
BaselineDropped(response) == "undefined"

\* loadOnekeymapKeymap's result as analyzeEditorConfig gets it:
\* `return response.keymap` / `catch { return null }`, then `?? undefined`
BaselineOf(response) == IF response = "throw" THEN "undefined" ELSE response

\* (mutant) an unreadable keybindings.json is passed on as it is
CurrentOrEmptyNot(path) == files[path]

\* `let currentVscodeContent = ''; try { ... = readFile(path) } catch {}`
CurrentOrEmpty(path) == IF Exists(path) THEN files[path] ELSE EmptyString

\* (mutant) the catch reports nothing
CatchSilent(op) == <<>>

\* the catch at the end of a handler: `this.status.showStatusMessage('OneKeymap: Sync failed (...)')`
CatchReport(op) ==
  IF op = "onVscodeKeybindingsChanged" THEN <<SyncFailedVscode>> ELSE <<SyncFailedOnekeymap>>

\* ------------------------------------------------------- transactions
native == "onVscodeKeybindingsChanged"
shared == "onOnekeymapConfigChanged"
initialize == "initializeIfNeeded"

\* A slot of tx.  pc names the call the transaction is suspended in (or about
\* to make, inside the write section); args are that call's arguments.
\* content, summary, current, newContent are the handler's locals; calls and
\* reads log the service calls and file reads it has made.  echo and repeatOf
\* are observations made when the handler was invoked (see Fresh).
IdleTx ==
  [pc |-> "idle", entry |-> "none", op |-> "none", content |-> Missing, args |-> <<>>,
   summary |-> "", current |-> Missing, newContent |-> Missing,
   calls |-> <<>>, threw |-> <<>>, reads |-> <<>>, echo |-> FALSE, repeatOf |-> "none"]

\* What an invocation that has returned did: how it ended (exit), the
\* content it read, its change summary, the service calls it made and those
\* that threw, the files it read and wrote, the status messages it showed.
NoLast ==
  [entry |-> "none", op |-> "none", exit |-> "none", content |-> Missing, summary |-> "",
   calls |-> <<>>, threw |-> <<>>, reads |-> <<>>, wrote |-> <<>>, msgs |-> <<>>,
   echo |-> FALSE, repeatOf |-> "none"]

WriteSection == {"ensureDir", "writeFile", "finally"}
InWriteSection == \E t \in Tx : tx[t].pc \in WriteSection
AllIdle == \A t \in Tx : tx[t].pc = "idle"
FreeSlots == {t \in Tx : tx[t].pc = "idle"}
FirstFree == CHOOSE t \in FreeSlots : \A u \in FreeSlots : t <= u

\* The invocation returns: its observations become `last`.
Returned(r, exit, wrote, msgs) ==
  [entry |-> r.entry, op |-> r.op, exit |-> exit, content |-> r.content,
   summary |-> r.summary, calls |-> r.calls, threw |-> r.threw, reads |-> r.reads,
   wrote |-> wrote, msgs |-> msgs, echo |-> r.echo, repeatOf |-> r.repeatOf]

\* The suspended transaction t, in state r, returns.
ReturnWith(t, r, exit, wrote, msgs) ==
  /\ last' = Returned(r, exit, wrote, msgs)
  /\ tx' = [tx EXCEPT ![t] = IdleTx]

Return(t, exit, wrote, msgs) == ReturnWith(t, tx[t], exit, wrote, msgs)

\* (mutant) a call that throws is made again
ThrowRetries(t) ==
  /\ tx' = [tx EXCEPT ![t] = [tx[t] EXCEPT !.threw = Append(@, tx[t].pc),
                                           !.calls = Append(@, tx[t].pc)]]
  /\ last' = NoLast

\* The call transaction t is suspended in throws into the handler's catch.
Throw(t) ==
  LET r == [tx[t] EXCEPT !.threw = Append(@, tx[t].pc)]
  IN ReturnWith(t, r, "callFailed", <<>>, CatchReport(r.op))

\* A suspended transaction t is resumed and goes on with record r.
Continue(t, r) ==
  /\ tx' = [tx EXCEPT ![t] = [r EXCEPT !.echo = FALSE, !.repeatOf = "none"]]
  /\ last' = NoLast

\* What an invocation observes about the past when it starts:
\* echo (once it has read `path`): the content it found is what the
\*   coordinator has just written there (lastWrite), nothing having happened since;
\* repeatOf: the invocation that returned in the previous step was the same
\*   handler, had read the content `path` holds now, and ended with a write
\*   or with a no-structural-change result (and nothing is in flight).
Fresh(entry, op, path) ==
  [IdleTx EXCEPT
     !.entry = entry, !.op = op,
     !.repeatOf = IF AllIdle /\ last.op = op /\ Exists(path)
                     /\ last.content = files[path]
                     /\ last.exit \in {"written", "noChange"}
                  THEN last.exit ELSE "none"]

\* The invocation returns in its first segment, having changed nothing.
Skip(r, exit) ==
  /\ last' = Returned(r, exit, <<>>, <<>>)
  /\ UNCHANGED <<files, syncing, lastWrittenHash, tx, lastWrite>>

\* The invocation suspends at its first await, in a free slot.  Without
\* overlap (one triggered sync is processed to completion at a time) a
\* handler gets this far only when no transaction is suspended.
Suspend(r) ==
  /\ FreeSlots # {}
  /\ overlap \/ AllIdle
  /\ tx' = [tx EXCEPT ![FirstFree] = r]
  /\ last' = NoLast
  /\ lastWrite' = <<>>
  /\ UNCHANGED <<files, syncing, lastWrittenHash>>

\* ---------------------------------------------------------------------
\* onVscodeKeybindingsChanged up to its first await: the guards, then
\* loadOnekeymapKeymap up to its await, or past it to analyzeEditorConfig
\* when onekeymap.json cannot be read.
NativeStart(entry) ==
  LET r0 == Fresh(entry, native, keybindingsPath)
      r1 == [r0 EXCEPT !.reads = <<keybindingsPath>>]
      r2 == [r1 EXCEPT !.content = files[keybindingsPath],
                       !.echo = (lastWrite = <<keybindingsPath, files[keybindingsPath]>>)]
      r3 == [r2 EXCEPT !.reads = Append(@, onekeymapPath)]
  IN
  IF SyncingGuard THEN Skip(r0, "syncing")
  ELSE IF ReadFails(keybindingsPath) THEN Skip(r1, "unreadable")
  ELSE IF HashGuard(keybindingsPath, r2.content) THEN Skip(r2, "hash")
  ELSE IF Exists(onekeymapPath)
  THEN Suspend([r3 EXCEPT !.pc = "loadOnekeymapKeymap",
                          !.args = <<files[onekeymapPath]>>,
                          !.calls = <<"parseKeymap">>])
  ELSE Suspend([r3 EXCEPT !.pc = "analyzeEditorConfig",
                          !.args = <<r3.content, NoKeymap>>,
                          !.calls = <<"analyzeEditorConfig">>])

OnVscodeKeybindingsChanged ==
  /\ NativeStart(native)
  /\ fresh' = FALSE
  /\ UNCHANGED <<overlap, activation, keymapWatcher, notify>>

\* initializeIfNeeded: activate() calls it once, on the coordinator it has
\* just constructed.
InitializeIfNeeded ==
  /\ fresh
  /\ IF NeedsInitialization
     THEN NativeStart(initialize)
     ELSE Skip([IdleTx EXCEPT !.entry = initialize], "notNeeded")
  /\ fresh' = FALSE
  /\ UNCHANGED <<overlap, activation, keymapWatcher, notify>>

\* loadOnekeymapKeymap: parseKeymap answers; a throw is caught and gives
\* null.  Then analyzeEditorConfig(content, currentOnekeymapKeymap ?? undefined).
\* (response: a keymap, NoKeymap for a response without one, or "throw")
LoadOnekeymapKeymapResponse(t, response) ==
  /\ tx[t].pc = "loadOnekeymapKeymap"
  /\ ~InWriteSection
  /\ LET currentOnekeymapKeymap == BaselineOf(response)
     IN Continue(t, [tx[t] EXCEPT !.pc = "analyzeEditorConfig",
                                  !.args = <<tx[t].content, currentOnekeymapKeymap>>,
                                  !.threw = IF response = "throw"
                                            THEN Append(@, "parseKeymap") ELSE @,
                                  !.calls = Append(@, "analyzeEditorConfig")])
  /\ lastWrite' = <<>>
  /\ UNCHANGED <<files, syncing, lastWrittenHash, fresh, overlap, activation, keymapWatcher, notify>>

ParseResponses == {"throw", NoKeymap} \cup Keymaps

LoadOnekeymapKeymapReturns(t) ==
  \E response \in ParseResponses : LoadOnekeymapKeymapResponse(t, response)

\* analyzeEditorConfig answers.
AnalyzeEditorConfigThrows(t) ==
  /\ tx[t].pc = "analyzeEditorConfig"
  /\ ~InWriteSection
  /\ Throw(t)
  /\ lastWrite' = <<>>
  /\ UNCHANGED <<files, syncing, lastWrittenHash, fresh, overlap, activation, keymapWatcher, notify>>

\* (response: keymap, or NoKeymap for a response without one, and changes)
AnalyzeEditorConfigResponse(t, keymap, changes) ==
  /\ tx[t].pc = "analyzeEditorConfig"
  /\ ~InWriteSection
  /\ IF ~HasKeymap(keymap)
     THEN /\ Return(t, "noKeymap", <<>>, <<>>)
          /\ UNCHANGED lastWrittenHash
     ELSE LET r == [tx[t] EXCEPT !.summary = formatChangeSummary(changes)] IN
          IF NoStructuralChange(changes)
          THEN /\ lastWrittenHash' = RecordSeen(r.content)
               /\ ReturnWith(t, r, "noChange", <<>>, <<>>)
          ELSE /\ Continue(t, [r EXCEPT !.pc = "generateKeymap",
                                        !.args = <<keymap>>,
                                        !.calls = Append(@, "generateKeymap")])
               /\ UNCHANGED lastWrittenHash
  /\ lastWrite' = <<>>
  /\ UNCHANGED <<files, syncing, fresh, overlap, activation, keymapWatcher, notify>>

AnalyzeEditorConfigReturns(t) ==
  \/ AnalyzeEditorConfigThrows(t)
  \/ \E keymap \in Keymaps \cup {NoKeymap}, changes \in ServiceChanges :
        AnalyzeEditorConfigResponse(t, keymap, changes)

\* generateKeymap answers: the write section is entered (syncing = true)
\* and ensureDir is about to be called.
GenerateKeymapThrowsIgnored(t) ==
  /\ tx[t].pc = "generateKeymap"
  /\ ~InWriteSection
  /\ Continue(t, [tx[t] EXCEPT !.pc = "ensureDir", !.args = <<>>,
                               !.threw = Append(@, "generateKeymap"),
                               !.newContent = EmptyString])
  /\ syncing' = TRUE
  /\ lastWrite' = <<>>
  /\ UNCHANGED <<files, lastWrittenHash, fresh, overlap, activation, keymapWatcher, notify>>

GenerateKeymapThrows(t) ==
  /\ tx[t].pc = "generateKeymap"
  /\ ~InWriteSection
  /\ Throw(t)
  /\ lastWrite' = <<>>
  /\ UNCHANGED <<files, syncing, lastWrittenHash, fresh, overlap, activation, keymapWatcher, notify>>

GenerateKeymapResponse(t, newOnekeymapContent) ==
  /\ tx[t].pc = "generateKeymap"
  /\ ~InWriteSection
  /\ Continue(t, [tx[t] EXCEPT !.pc = "ensureDir", !.args = <<>>,
                               !.newContent = newOnekeymapContent])
  /\ syncing' = TRUE
  /\ lastWrite' = <<>>
  /\ UNCHANGED <<files, lastWrittenHash, fresh, overlap, activation, keymapWatcher, notify>>

GenerateKeymapReturns(t) ==
  \/ GenerateKeymapThrows(t)
  \/ \E newOnekeymapContent \in Contents : GenerateKeymapResponse(t, newOnekeymapContent)

\* (mutant) the generated content is written over the file that was read
TargetIsSource(t) == IF tx[t].op = native THEN keybindingsPath ELSE onekeymapPath

\* Where transaction t writes, and its messages
Target(t) == IF tx[t].op = native THEN onekeymapPath ELSE keybindingsPath
SuccessMessage(t) ==
  IF tx[t].op = native THEN SyncedFromVscode(tx[t].summary) ELSE SyncedFromOnekeymap

\* ensureDir(onekeymapPath) returns and the hash is recorded, or it throws.
EnsureDir(t) ==
  /\ tx[t].pc = "ensureDir"
  /\ \/ \* ensureDir throws: finally, catch
        /\ syncing' = FinallyClear
        /\ Return(t, "ensureDirFailed", <<>>, CatchReport(tx[t].op))
        /\ UNCHANGED lastWrittenHash
     \/ /\ lastWrittenHash' = SetLastWrittenHash(Target(t), tx[t].newContent)
        /\ Continue(t, [tx[t] EXCEPT !.pc = "writeFile"])
        /\ UNCHANGED syncing
  /\ lastWrite' = <<>>
  /\ UNCHANGED <<files, fresh, overlap, activation, keymapWatcher, notify>>

\* writeFile(target, newContent) puts the content in place, or throws.
WriteFileStep(t) ==
  /\ tx[t].pc = "writeFile"
  /\ \/ \* writeFile throws: finally, catch
        /\ syncing' = FinallyClear
        /\ Return(t, "writeFailed", <<>>, CatchReport(tx[t].op))
        /\ lastWrite' = <<>>
        /\ UNCHANGED files
     \/ /\ files' = [files EXCEPT ![Target(t)] = tx[t].newContent]
        /\ Continue(t, [tx[t] EXCEPT !.pc = "finally"])
        /\ lastWrite' = <<Target(t), tx[t].newContent>>
        /\ UNCHANGED syncing
  /\ UNCHANGED <<lastWrittenHash, fresh, overlap, activation, keymapWatcher>>

WriteFile(t) ==
  /\ WriteFileStep(t)
  /\ UNCHANGED notify

\* writeFile has returned: finally { syncing = false }, then the success message.
Finally(t) ==
  /\ tx[t].pc = "finally"
  /\ syncing' = FinallyClear
  /\ Return(t, "written", <<<<Target(t), tx[t].newContent>>>>, <<SuccessMessage(t)>>)
  /\ UNCHANGED <<files, lastWrittenHash, lastWrite, fresh, overlap, activation, keymapWatcher, notify>>

\* ---------------------------------------------------------------------
\* onOnekeymapConfigChanged up to its first await: the guards, then parseKeymap.
SharedStart ==
  LET r0 == Fresh(shared, shared, onekeymapPath)
      r1 == [r0 EXCEPT !.reads = <<onekeymapPath>>]
      r2 == [r1 EXCEPT !.content = files[onekeymapPath],
                       !.echo = (lastWrite = <<onekeymapPath, files[onekeymapPath]>>)]
  IN
  IF SyncingGuard THEN Skip(r0, "syncing")
  ELSE IF ReadFails(onekeymapPath) THEN Skip(r1, "unreadable")
  ELSE IF HashGuard(onekeymapPath, r2.content) THEN Skip(r2, "hash")
  ELSE Suspend([r2 EXCEPT !.pc = "parseKeymap", !.args = <<r2.content>>,
                          !.calls = <<"parseKeymap">>])

OnOnekeymapConfigChanged ==
  /\ SharedStart
  /\ fresh' = FALSE
  /\ UNCHANGED <<overlap, activation, keymapWatcher, notify>>

\* parseKeymap answers; keybindings.json is read ('' when that fails);
\* generateEditorConfig is called.
ParseKeymapThrows(t) ==
  /\ tx[t].pc = "parseKeymap"
  /\ ~InWriteSection
  /\ Throw(t)
  /\ lastWrite' = <<>>
  /\ UNCHANGED <<files, syncing, lastWrittenHash, fresh, overlap, activation, keymapWatcher, notify>>

\* (response: keymap, or NoKeymap for a response without one)
ParseKeymapResponse(t, keymap) ==
  /\ tx[t].pc = "parseKeymap"
  /\ ~InWriteSection
  /\ IF ~HasKeymap(keymap)
     THEN Return(t, "noKeymap", <<>>, <<>>)
     ELSE LET currentVscodeContent == CurrentOrEmpty(keybindingsPath)
          IN Continue(t, [tx[t] EXCEPT !.pc = "generateEditorConfig",
                                       !.args = <<keymap, currentVscodeContent>>,
                                       !.current = currentVscodeContent,
                                       !.reads = Append(@, keybindingsPath),
                                       !.calls = Append(@, "generateEditorConfig")])
  /\ lastWrite' = <<>>
  /\ UNCHANGED <<files, syncing, lastWrittenHash, fresh, overlap, activation, keymapWatcher, notify>>

ParseKeymapReturns(t) ==
  \/ ParseKeymapThrows(t)
  \/ \E keymap \in Keymaps \cup {NoKeymap} : ParseKeymapResponse(t, keymap)

\* generateEditorConfig answers: identical content returns; otherwise the
\* write section is entered, the hash recorded, and writeFile is about to be called.
GenerateEditorConfigThrows(t) ==
  /\ tx[t].pc = "generateEditorConfig"
  /\ ~InWriteSection
  /\ Throw(t)
  /\ lastWrite' = <<>>
  /\ UNCHANGED <<files, syncing, lastWrittenHash, fresh, overlap, activation, keymapWatcher, notify>>

GenerateEditorConfigResponse(t, newVscodeContent) ==
  /\ tx[t].pc = "generateEditorConfig"
  /\ ~InWriteSection
  /\ IF Identical(newVscodeContent, tx[t].current)
     THEN /\ Return(t, "identical", <<>>, <<>>)
          /\ UNCHANGED <<syncing, lastWrittenHash>>
     ELSE /\ syncing' = TRUE
          /\ lastWrittenHash' = SetLastWrittenHash(keybindingsPath, newVscodeContent)
          /\ Continue(t, [tx[t] EXCEPT !.pc = "writeFile", !.args = <<>>,
                                       !.current = Missing,
                                       !.newContent = newVscodeContent])
  /\ lastWrite' = <<>>
  /\ UNCHANGED <<files, fresh, overlap, activation, keymapWatcher, notify>>

GenerateEditorConfigReturns(t) ==
  \/ GenerateEditorConfigThrows(t)
  \/ \E newVscodeContent \in Contents : GenerateEditorConfigResponse(t, newVscodeContent)

\* ---------------------------------------------------------------------
\* Somebody else (the user, another editor's plugin) changes or deletes a file.
ExternalEdit(path, content) ==
  /\ content # files[path]
  /\ files' = [files EXCEPT ![path] = content]
  /\ last' = NoLast
  /\ lastWrite' = IF lastWrite # <<>> /\ lastWrite[1] = path THEN <<>> ELSE lastWrite
  /\ UNCHANGED <<syncing, lastWrittenHash, tx, fresh, overlap, activation, keymapWatcher, notify>>

\* The coordinator as constructed, over any two files.
Constructed ==
  /\ files \in [Paths -> Contents \cup {Missing}]
  /\ syncing = FALSE
  /\ lastWrittenHash = [p \in Paths |-> NoHash]
  /\ tx = [t \in Tx |-> IdleTx]
  /\ fresh = TRUE
  /\ last = NoLast
  /\ lastWrite = <<>>
  /\ notify = {}

Init == Constructed /\ overlap = FALSE /\ activation = "none" /\ keymapWatcher = NoWatchers
InitConc == Constructed /\ overlap = TRUE /\ activation = "none" /\ keymapWatcher = NoWatchers

Next ==
  \/ OnVscodeKeybindingsChanged
  \/ OnOnekeymapConfigChanged
  \/ InitializeIfNeeded
  \/ \E t \in Tx : LoadOnekeymapKeymapReturns(t)
  \/ \E t \in Tx : AnalyzeEditorConfigReturns(t)
  \/ \E t \in Tx : GenerateKeymapReturns(t)
  \/ \E t \in Tx : ParseKeymapReturns(t)
  \/ \E t \in Tx : GenerateEditorConfigReturns(t)
  \/ \E t \in Tx : EnsureDir(t)
  \/ \E t \in Tx : WriteFile(t)
  \/ \E t \in Tx : Finally(t)
  \/ \E path \in Paths, content \in Contents \cup {Missing} : ExternalEdit(path, content)

\* One triggered sync at a time (the scheduling the design assumes).
Spec == Init /\ [][Next]_vars
\* Handlers may start while other transactions are suspended on a service
\* call, as the watchers' timers allow.
SpecConc == InitConc /\ [][Next]_vars

\* ---------------------------------------------------------------------
\* The loop of writes and notifications: the coordinator at rest in any
\* state it can have, one file just edited from outside (its notification
\* pending); every successful write by the coordinator raises a notification
\* for the written file; nobody else touches the files.
LoopInit ==
  /\ files \in [Paths -> Contents \cup {Missing}]
  /\ syncing = FALSE
  /\ lastWrittenHash \in [Paths -> {NoHash} \cup {contentHash(c) : c \in Contents}]
  /\ tx = [t \in Tx |-> IdleTx]
  /\ fresh = FALSE
  /\ overlap = FALSE
  /\ activation = "none"
  /\ keymapWatcher = NoWatchers
  /\ last = NoLast
  /\ lastWrite = <<>>
  /\ \E path \in Paths : notify = {path}

NotifiedVscodeKeybindingsChanged ==
  /\ keybindingsPath \in notify
  /\ NativeStart(native)
  /\ notify' = notify \ {keybindingsPath}
  /\ UNCHANGED <<fresh, overlap, activation, keymapWatcher>>

NotifiedOnekeymapConfigChanged ==
  /\ onekeymapPath \in notify
  /\ SharedStart
  /\ notify' = notify \ {onekeymapPath}
  /\ UNCHANGED <<fresh, overlap, activation, keymapWatcher>>

NotifyingWriteFile(t) ==
  /\ WriteFileStep(t)
  /\ notify' = IF tx'[t].pc = "finally" THEN notify \cup {Target(t)} ELSE notify

LoopNext ==
  \/ NotifiedVscodeKeybindingsChanged
  \/ NotifiedOnekeymapConfigChanged
  \/ \E t \in Tx : LoadOnekeymapKeymapReturns(t)
  \/ \E t \in Tx : AnalyzeEditorConfigReturns(t)
  \/ \E t \in Tx : GenerateKeymapReturns(t)
  \/ \E t \in Tx : ParseKeymapReturns(t)
  \/ \E t \in Tx : GenerateEditorConfigReturns(t)
  \/ \E t \in Tx : EnsureDir(t)
  \/ \E t \in Tx : NotifyingWriteFile(t)
  \/ \E t \in Tx : Finally(t)

\* The event loop runs every callback that is ready, and every service call
\* ends (with a response or with the client's deadline error).
SpecLoop == LoopInit /\ [][LoopNext]_vars /\ WF_vars(LoopNext)

\* ---------------------------------------------------------------------
\* What a step did, read off the two states of the step.
SkipExits == {"syncing", "unreadable", "hash"}
HandlerOf(path) == IF path = keybindingsPath THEN native ELSE shared
\* a handler `op` was invoked and went on to a service call
StartedOp(op) == \E t \in Tx : tx[t].pc = "idle" /\ tx'[t].pc # "idle" /\ tx'[t].op = op
\* a handler `op` was invoked and returned at one of its guards
SkippedOp(op) == last'.op = op /\ last'.exit \in SkipExits
NothingDone(r) == r.calls = <<>> /\ r.wrote = <<>> /\ r.msgs = <<>>

\* C1: a shared-file handler that reads exactly the content the native-file
\* handler has just written to onekeymap.json returns at the hash guard:
\* no parseKeymap, no other service call, no write.
EchoSuppressedNativeToShared ==
  /\ \A t \in Tx : tx[t].op = shared => ~tx[t].echo
  /\ (last.op = shared /\ last.echo) => (last.exit = "hash" /\ NothingDone(last))

EchoSuppressedNativeToSharedWitness ==
  last.op = shared /\ last.echo /\ last.exit = "hash" /\ last.content = files[onekeymapPath]

\* C2: a native-file handler that reads exactly the content the shared-file
\* handler has just written to keybindings.json returns at the hash guard:
\* no analyzeEditorConfig, no other service call, no write.
EchoSuppressedSharedToNative ==
  /\ \A t \in Tx : tx[t].op = native => ~tx[t].echo
  /\ (last.op = native /\ last.echo) => (last.exit = "hash" /\ NothingDone(last))

EchoSuppressedSharedToNativeWitness ==
  last.op = native /\ last.echo /\ last.exit = "hash" /\ last.content = files[keybindingsPath]

\* C3: after one external edit, with a notification for every write of the
\* coordinator and no other edit, the writes stop: the coordinator comes to
\* rest (nothing pending, nothing in flight, syncing false) for good, and
\* every notification of its own writes is suppressed without a write.
Quiet == notify = {} /\ AllIdle /\ ~syncing
NoWriteNotifyCycle ==
  /\ <>[]Quiet
  /\ [](/\ \A t \in Tx : ~tx[t].echo
        /\ last.echo => (last.exit = "hash" /\ NothingDone(last)))

NoWriteNotifyCycleWitness ==
  Quiet /\ last.echo /\ last.exit = "hash"

\* C4: a handler that finds in its file a content whose hash is
\* lastWrittenHash[file] returns there: no service call, no write, no
\* message, syncing and lastWrittenHash as they were.
HashGuardNoOp ==
  [][\A path \in Paths :
       (~syncing /\ Exists(path) /\ lastWrittenHash[path] = contentHash(files[path]))
         => /\ ~StartedOp(HandlerOf(path))
            /\ SkippedOp(HandlerOf(path)) =>
                 /\ last'.exit = "hash"
                 /\ last'.reads = <<path>>
                 /\ NothingDone(last')
                 /\ UNCHANGED <<files, syncing, lastWrittenHash, tx>>]_vars

HashGuardNoOpWitness ==
  /\ last.exit = "hash" /\ ~last.echo
  /\ \E path \in Paths : last.op = HandlerOf(path) /\ HashGuard(path, files[path])

\* C5: while syncing is true an invocation of either handler returns at its
\* first guard: no file read, no service call, no write, no message, syncing
\* and lastWrittenHash as they were.
SyncingNoOp ==
  [][syncing =>
       \A op \in {native, shared} :
          /\ ~StartedOp(op)
          /\ SkippedOp(op) =>
               /\ last'.exit = "syncing"
               /\ last'.reads = <<>>
               /\ NothingDone(last')
               /\ UNCHANGED <<files, syncing, lastWrittenHash, tx>>]_vars

SyncingNoOpWitness ==
  last.exit = "syncing" /\ syncing /\ InWriteSection

\* C6: syncing is true only while a transaction is inside its write
\* section, and false once a transaction has returned, also when ensureDir
\* or writeFile threw.
SyncingClearedOnExit ==
  /\ syncing => InWriteSection
  /\ last.exit \notin {"none", "syncing"} => ~syncing

SyncingClearedOnExitWitness ==
  last.exit \in {"ensureDirFailed", "writeFailed"} /\ ~syncing /\ AllIdle

\* C7 as stated: a second onVscodeKeybindingsChanged on the same content,
\* right after a first one that ended with a write or with a
\* no-structural-change result, is suppressed without a service call.
IdempotentAfterWriteOrNoChange ==
  /\ \A t \in Tx : tx[t].repeatOf = "none"
  /\ (last.op = native /\ last.repeatOf # "none") => (last.exit = "hash" /\ NothingDone(last))

\* C7 (amended): the second call is suppressed without a service call when
\* the first one ended with a no-structural-change result (the case of a
\* first call that ended with a write is dropped).
IdempotentAfterNoChange ==
  /\ \A t \in Tx : tx[t].repeatOf # "noChange"
  /\ (last.op = native /\ last.repeatOf = "noChange")
        => (last.exit = "hash" /\ NothingDone(last))

IdempotentAfterNoChangeWitness ==
  last.op = native /\ last.repeatOf = "noChange" /\ last.exit = "hash"

\* The calls of a returned invocation that threw into the handler's catch:
\* all but parseKeymap inside loadOnekeymapKeymap, which has its own catch.
Swallowed(r, call) == r.op = native /\ call = "parseKeymap"
Uncaught(r) == {i \in DOMAIN r.threw : ~Swallowed(r, r.threw[i])}
OneFailureNoWrite(r) == r.msgs = CatchReport(r.op) /\ Len(r.msgs) = 1 /\ r.wrote = <<>>

\* C8 as stated: whenever a service call of the transaction threw, exactly
\* one failure message is reported and the transaction writes nothing.
AnyThrowReported ==
  last.threw # <<>> => OneFailureNoWrite(last)

\* C8 (amended): a throw of analyzeEditorConfig, generateKeymap,
\* generateEditorConfig, or of parseKeymap in onOnekeymapConfigChanged ends
\* the transaction with exactly one failure message and no write; a throw of
\* parseKeymap inside loadOnekeymapKeymap is swallowed and the transaction
\* goes on without a baseline.
UncaughtThrowReported ==
  /\ \A t \in Tx : /\ Uncaught(tx[t]) = {}
                   /\ tx[t].threw # <<>> =>
                        (tx[t].threw = <<"parseKeymap">> /\ tx[t].pc # "loadOnekeymapKeymap")
  /\ Uncaught(last) # {} <=> last.exit = "callFailed"
  /\ last.exit = "callFailed" =>
       (Cardinality(Uncaught(last)) = 1 /\ OneFailureNoWrite(last))

UncaughtThrowReportedWitness ==
  last.exit = "callFailed" /\ last.threw = <<"parseKeymap", "generateKeymap">>

\* C9: a handler whose file cannot be read returns there: no service call,
\* no write, no message, syncing and lastWrittenHash as they were.
UnreadableNoOp ==
  [][\A path \in Paths :
       (~syncing /\ ~Exists(path))
         => /\ ~StartedOp(HandlerOf(path))
            /\ SkippedOp(HandlerOf(path)) =>
                 /\ last'.exit = "unreadable"
                 /\ NothingDone(last')
                 /\ UNCHANGED <<files, syncing, lastWrittenHash, tx>>]_vars

UnreadableNoOpWitness ==
  last.exit = "unreadable" /\ \E path \in Paths : last.op = HandlerOf(path) /\ ~Exists(path)

\* C10: when analyzeEditorConfig answers with a keymap and changes whose
\* three sequences are empty (the summary is "no changes"), the handler
\* returns without calling generateKeymap, without a write and without a
\* success or failure message.
EmptyDiffNoOp ==
  /\ \A t \in Tx : tx[t].summary # "no changes"
  /\ last.summary = "no changes" =>
       /\ last.exit = "noChange"
       /\ last.calls \in {<<"analyzeEditorConfig">>, <<"parseKeymap", "analyzeEditorConfig">>}
       /\ last.wrote = <<>>
       /\ last.msgs = <<>>

EmptyDiffNoOpWitness ==
  last.exit = "noChange" /\ last.summary = "no changes" /\ last.op = native

\* C11: when generateEditorConfig answers with the content the transaction
\* read from keybindings.json ('' when it could not be read),
\* onOnekeymapConfigChanged returns: no write, syncing never set,
\* lastWrittenHash as it was, no status message.
IdenticalGenerationNoOp ==
  [][\A t \in Tx, newVscodeContent \in Contents :
       (GenerateEditorConfigResponse(t, newVscodeContent) /\ newVscodeContent = tx[t].current)
         => /\ tx'[t].pc = "idle"
            /\ last'.op = shared /\ last'.exit = "identical"
            /\ last'.wrote = <<>> /\ last'.msgs = <<>>
            /\ ~syncing /\ ~syncing'
            /\ UNCHANGED <<files, lastWrittenHash>>]_vars

IdenticalGenerationNoOpWitness ==
  /\ last.op = shared /\ last.exit = "identical"
  /\ last.calls = <<"parseKeymap", "generateEditorConfig">>
  /\ ~Exists(keybindingsPath)

\* The number of times `call` occurs in a log of calls.
Count(calls, call) == Cardinality({i \in DOMAIN calls : calls[i] = call})

InitializeNoOp ==
  [][(InitializeIfNeeded /\ (Exists(onekeymapPath) \/ ~Exists(keybindingsPath)))
       => /\ last'.entry = initialize /\ last'.exit = "notNeeded"
          /\ last'.reads = <<>>
          /\ NothingDone(last')
          /\ UNCHANGED <<files, syncing, lastWrittenHash, tx>>]_vars

InitializeNoOpWitness ==
  /\ last.entry = initialize /\ last.exit = "notNeeded"
  /\ Exists(onekeymapPath) /\ Exists(keybindingsPath)

\* ---------------------------------------------------------------------
\* The coordinator under the callers activate() gives it: the two watchers'
\* timers and the sync command invoke the handlers whenever they fire, also
\* while a transaction is suspended on a service call; nobody else edits the
\* files.
CoordinatorNext ==
  \/ OnVscodeKeybindingsChanged
  \/ OnOnekeymapConfigChanged
  \/ InitializeIfNeeded
  \/ \E t \in Tx : LoadOnekeymapKeymapReturns(t)
  \/ \E t \in Tx : AnalyzeEditorConfigReturns(t)
  \/ \E t \in Tx : GenerateKeymapReturns(t)
  \/ \E t \in Tx : ParseKeymapReturns(t)
  \/ \E t \in Tx : GenerateEditorConfigReturns(t)
  \/ \E t \in Tx : EnsureDir(t)
  \/ \E t \in Tx : WriteFile(t)
  \/ \E t \in Tx : Finally(t)

SpecOverlap == InitConc /\ [][CoordinatorNext]_vars

\* C14: while a transaction is suspended on a translation-service call, no
\* invocation of either handler gets past its guards to a service call of
\* its own (at most one transaction is in flight).
AwaitingService ==
  {"loadOnekeymapKeymap", "analyzeEditorConfig", "generateKeymap",
   "parseKeymap", "generateEditorConfig"}
OneTransactionInFlight ==
  [][(\E t \in Tx : tx[t].pc \in AwaitingService)
       => \A op \in {native, shared} : ~StartedOp(op)]_vars

\* ---------------------------------------------------------------------
\* A conflict: the coordinator at rest in any state it can have, both files
\* present and both just edited from outside (neither content is the one
\* lastWrittenHash remembers), a notification pending for each.  The two
\* handlers are triggered one after the other, each when nothing is in
\* flight; nobody edits the files again.
ConflictInit ==
  /\ files \in [Paths -> Contents]
  /\ syncing = FALSE
  /\ lastWrittenHash \in [Paths -> {NoHash} \cup {contentHash(c) : c \in Contents}]
  /\ \A path \in Paths : lastWrittenHash[path] # contentHash(files[path])
  /\ tx = [t \in Tx |-> IdleTx]
  /\ fresh = FALSE
  /\ overlap = FALSE
  /\ activation = "none"
  /\ keymapWatcher = NoWatchers
  /\ last = NoLast
  /\ lastWrite = <<>>
  /\ notify = Paths

TriggeredVscodeKeybindingsChanged == AllIdle /\ NotifiedVscodeKeybindingsChanged
TriggeredOnekeymapConfigChanged == AllIdle /\ NotifiedOnekeymapConfigChanged

ConflictNext ==
  \/ TriggeredVscodeKeybindingsChanged
  \/ TriggeredOnekeymapConfigChanged
  \/ \E t \in Tx : LoadOnekeymapKeymapReturns(t)
  \/ \E t \in Tx : AnalyzeEditorConfigReturns(t)
  \/ \E t \in Tx : GenerateKeymapReturns(t)
  \/ \E t \in Tx : ParseKeymapReturns(t)
  \/ \E t \in Tx : GenerateEditorConfigReturns(t)
  \/ \E t \in Tx : EnsureDir(t)
  \/ \E t \in Tx : WriteFile(t)
  \/ \E t \in Tx : Finally(t)

SpecConflict == ConflictInit /\ [][ConflictNext]_vars

\* C15: when both files were edited and both handlers are triggered one
\* after the other, the handler that fires last is the one that decides: it
\* is not suppressed, the file it reads still holds the external edit (not
\* what the first handler wrote there), and what it writes goes to the other
\* file.
OtherPath(path) == IF path = keybindingsPath THEN onekeymapPath ELSE keybindingsPath
SourceOf(op) == IF op = native THEN keybindingsPath ELSE onekeymapPath
LastWriterWins ==
  (notify = {} /\ AllIdle /\ last.op \in {native, shared})
     => /\ last.exit \notin SkipExits
        /\ ~last.echo
        /\ last.wrote # <<>> => last.wrote[1][1] = OtherPath(SourceOf(last.op))

\* The file a transaction record writes to.
TargetOf(r) == IF r.op = native THEN onekeymapPath ELSE keybindingsPath
\* In this step a transaction reaches its writeFile call for `path`, having
\* recorded the hash of the content it is about to write there.
RecordedForWrite(path) ==
  \E t \in Tx : /\ tx[t].pc # "writeFile" /\ tx'[t].pc = "writeFile"
                /\ TargetOf(tx'[t]) = path
                /\ lastWrittenHash'[path] = contentHash(tx'[t].newContent)

\* C16 as stated: an entry of lastWrittenHash is created or updated only in
\* connection with a write of the coordinator to that path, with the hash of
\* the written content.
HashesOnlyOfWrites ==
  [][\A path \in Paths :
       lastWrittenHash'[path] # lastWrittenHash[path] => RecordedForWrite(path)]_vars

\* C16 (amended): an entry of lastWrittenHash[P] is created or updated
\* either immediately before a write of the coordinator to P, with the hash
\* of the content to be written (it stays when the write then fails), or,
\* for keybindings.json, with the hash of the content read when
\* analyzeEditorConfig reports no structural change; once a write has
\* succeeded the entry is the hash of the content now in P; entries are
\* never deleted.
HashesOfWritesOrSeen ==
  /\ [][\A path \in Paths :
          lastWrittenHash'[path] # lastWrittenHash[path]
            => \/ RecordedForWrite(path)
               \/ /\ path = keybindingsPath
                  /\ last'.op = native /\ last'.exit = "noChange"
                  /\ last'.wrote = <<>>
                  /\ lastWrittenHash'[path] = contentHash(last'.content)]_vars
  /\ [][\A path \in Paths :
          lastWrittenHash[path] # NoHash => lastWrittenHash'[path] # NoHash]_vars
  /\ [][\A t \in Tx :
          (tx[t].pc = "writeFile" /\ tx'[t].pc = "finally")
            => /\ files'[TargetOf(tx[t])] = tx[t].newContent
               /\ lastWrittenHash'[TargetOf(tx[t])] = contentHash(files'[TargetOf(tx[t])])]_vars

HashesOfWritesOrSeenWitness ==
  /\ last.exit = "written" /\ lastWrite # <<>>
  /\ lastWrite = last.wrote[1]
  /\ files[lastWrite[1]] = lastWrite[2]
  /\ lastWrittenHash[lastWrite[1]] = contentHash(lastWrite[2])
  /\ lastWrittenHash[OtherPath(lastWrite[1])] # NoHash

\* C17: when analyzeEditorConfig (native to shared) or parseKeymap (shared
\* to native) answers without a keymap, the transaction returns: no further
\* service call, no write, no status message, syncing false, files and
\* lastWrittenHash as they were.
SoftFailureNoOp ==
  [][\A t \in Tx :
       (\/ \E changes \in ServiceChanges : AnalyzeEditorConfigResponse(t, NoKeymap, changes)
        \/ ParseKeymapResponse(t, NoKeymap))
         => /\ tx'[t].pc = "idle"
            /\ last'.op = tx[t].op /\ last'.exit = "noKeymap"
            /\ last'.calls = tx[t].calls
            /\ last'.wrote = <<>> /\ last'.msgs = <<>>
            /\ ~syncing /\ ~syncing'
            /\ UNCHANGED <<files, lastWrittenHash>>]_vars

SoftFailureNoOpWitness ==
  /\ last.exit = "noKeymap" /\ last.op = native
  /\ last.calls = <<"parseKeymap", "analyzeEditorConfig">>
  /\ last.msgs = <<>> /\ ~syncing

\* C18: onVscodeKeybindingsChanged calls analyzeEditorConfig on the content it
\* read, with the keymap parseKeymap returned for the current onekeymap.json
\* as baseline, and without baseline when onekeymap.json cannot be read or
\* parseKeymap throws or returns no keymap; the baseline step never ends
\* the transaction and never reports anything.
BaselineHandled ==
  /\ [][\A t \in Tx :
          (tx[t].pc = "idle" /\ tx'[t].pc # "idle" /\ tx'[t].op = native)
            => /\ tx'[t].content = files[keybindingsPath]
               /\ IF files[onekeymapPath] # Missing
                  THEN /\ tx'[t].pc = "loadOnekeymapKeymap"
                       /\ tx'[t].args = <<files[onekeymapPath]>>
                       /\ tx'[t].calls = <<"parseKeymap">>
                  ELSE /\ tx'[t].pc = "analyzeEditorConfig"
                       /\ tx'[t].args = <<files[keybindingsPath], NoKeymap>>
                       /\ tx'[t].calls = <<"analyzeEditorConfig">>
                       /\ tx'[t].threw = <<>>]_vars
  /\ [][\A t \in Tx, response \in ParseResponses :
          LoadOnekeymapKeymapResponse(t, response)
            => /\ tx'[t].pc = "analyzeEditorConfig"
               /\ tx'[t].args = <<tx[t].content,
                                  IF response \in Keymaps THEN response ELSE NoKeymap>>
               /\ tx'[t].calls = <<"parseKeymap", "analyzeEditorConfig">>
               /\ last' = NoLast
               /\ UNCHANGED <<files, syncing, lastWrittenHash>>]_vars

BaselineHandledWitness ==
  \E t \in Tx : /\ tx[t].pc = "analyzeEditorConfig"
                /\ tx[t].calls = <<"parseKeymap", "analyzeEditorConfig">>
                /\ tx[t].threw = <<>>
                /\ tx[t].args[2] \in Keymaps

\* C19: in onOnekeymapConfigChanged, once parseKeymap has returned a keymap,
\* generateEditorConfig is called with that keymap and the content of
\* keybindings.json, or with '' when keybindings.json cannot be read; the
\* transaction goes on and nothing is reported.
MissingNativeReadAsEmpty ==
  [][\A t \in Tx, keymap \in Keymaps :
       ParseKeymapResponse(t, keymap)
         => /\ tx'[t].pc = "generateEditorConfig"
            /\ tx'[t].args = <<keymap, IF files[keybindingsPath] = Missing
                                       THEN EmptyString ELSE files[keybindingsPath]>>
            /\ tx'[t].calls = <<"parseKeymap", "generateEditorConfig">>
            /\ tx'[t].threw = <<>>
            /\ last' = NoLast
            /\ UNCHANGED <<files, syncing, lastWrittenHash>>]_vars

MissingNativeReadAsEmptyWitness ==
  /\ files[keybindingsPath] = Missing
  /\ \E t \in Tx : /\ tx[t].pc = "generateEditorConfig"
                   /\ tx[t].args[2] = EmptyString
                   /\ tx[t].current = EmptyString

\* C20: a transaction that succeeds writes exactly once, to its target
\* file, exactly the content its generate call returned (generateKeymap for
\* onekeymap.json, generateEditorConfig for keybindings.json), and shows the
\* success message after the write: with the change summary of the analyze
\* response for native to shared, the fixed message for shared to native.
SuccessWritesGenerated ==
  /\ [][\A t \in Tx, content \in Contents :
          /\ GenerateKeymapResponse(t, content)
               => (tx'[t].pc = "ensureDir" /\ tx'[t].newContent = content)
          /\ (GenerateEditorConfigResponse(t, content) /\ content # tx[t].current)
               => (tx'[t].pc = "writeFile" /\ tx'[t].newContent = content)]_vars
  /\ [][\A t \in Tx, keymap \in Keymaps, changes \in ServiceChanges :
          (AnalyzeEditorConfigResponse(t, keymap, changes) /\ tx'[t].pc # "idle")
             => tx'[t].summary = formatChangeSummary(changes)]_vars
  /\ [][\A t \in Tx :
          /\ (tx[t].pc \in {"generateKeymap"} \cup WriteSection /\ tx'[t].pc # "idle")
               => tx'[t].summary = tx[t].summary
          /\ (tx[t].pc \in WriteSection /\ tx'[t].pc # "idle")
               => tx'[t].newContent = tx[t].newContent
          /\ (tx[t].pc = "writeFile" /\ tx'[t].pc = "finally")
               => /\ files' = [files EXCEPT ![TargetOf(tx[t])] = tx[t].newContent]
                  /\ last' = NoLast
          /\ (tx[t].pc = "finally" /\ tx'[t].pc = "idle")
               => /\ last'.exit = "written"
                  /\ last'.wrote = <<<<TargetOf(tx[t]), tx[t].newContent>>>>
                  /\ last'.msgs =
                       <<IF tx[t].op = native
                         THEN "OneKeymap: Synced from VS Code (" \o tx[t].summary \o ")"
                         ELSE "OneKeymap: Synced from onekeymap.json">>
                  /\ UNCHANGED files]_vars
  /\ [][(files' # files /\ tx' # tx)
          => \E t \in Tx : /\ tx[t].pc = "writeFile" /\ tx'[t].pc = "finally"
                           /\ \A u \in Tx \ {t} : tx'[u] = tx[u]]_vars
  /\ [](last.wrote # <<>> <=> last.exit = "written")

SuccessWritesGeneratedWitness ==
  /\ last.op = native /\ last.exit = "written"
  /\ last.calls = <<"parseKeymap", "analyzeEditorConfig", "generateKeymap">>
  /\ last.msgs = <<"OneKeymap: Synced from VS Code (1 added, 2 updated)">>
  /\ last.wrote = <<<<onekeymapPath, files[onekeymapPath]>>>>

\* ------------------------------------------------------------------
\* The native-to-shared handler with the service answering any changes
\* object of AllChanges, so that formatChangeSummary is applied to each.
SummaryNext ==
  \/ OnVscodeKeybindingsChanged
  \/ \E t \in Tx : LoadOnekeymapKeymapReturns(t)
  \/ \E t \in Tx : AnalyzeEditorConfigThrows(t)
  \/ \E t \in Tx, keymap \in Keymaps \cup {NoKeymap}, changes \in AllChanges :
        AnalyzeEditorConfigResponse(t, keymap, changes)
  \/ \E t \in Tx : GenerateKeymapReturns(t)
  \/ \E t \in Tx : EnsureDir(t)
  \/ \E t \in Tx : WriteFile(t)
  \/ \E t \in Tx : Finally(t)

SpecSummary == Init /\ [][SummaryNext]_vars

\* The reference: one clause per count, a table over which counts are zero.
Clause(n, word) == ToString(n) \o " " \o word
ReferenceSummary(changes) ==
  LET a == changes.add
      r == changes.remove
      u == changes.update
  IN CASE ~changes.defined -> ""
       [] changes.defined /\ a = 0 /\ r = 0 /\ u = 0 -> "no changes"
       [] changes.defined /\ a > 0 /\ r = 0 /\ u = 0 -> Clause(a, "added")
       [] changes.defined /\ a = 0 /\ r > 0 /\ u = 0 -> Clause(r, "removed")
       [] changes.defined /\ a = 0 /\ r = 0 /\ u > 0 -> Clause(u, "updated")
       [] changes.defined /\ a > 0 /\ r > 0 /\ u = 0 ->
            Clause(a, "added") \o ", " \o Clause(r, "removed")
       [] changes.defined /\ a > 0 /\ r = 0 /\ u > 0 ->
            Clause(a, "added") \o ", " \o Clause(u, "updated")
       [] changes.defined /\ a = 0 /\ r > 0 /\ u > 0 ->
            Clause(r, "removed") \o ", " \o Clause(u, "updated")
       [] changes.defined /\ a > 0 /\ r > 0 /\ u > 0 ->
            Clause(a, "added") \o ", " \o Clause(r, "removed") \o ", " \o Clause(u, "updated")

\* The summary a step computed: kept by the transaction, or by the record
\* of the call when the step returned.
SummaryAfter(t) == IF tx'[t].pc = "idle" THEN last'.summary ELSE tx'[t].summary

\* C21: for every changes object the service can answer with, the summary
\* the handler computes is the reference's: "" for none, "no changes" exactly
\* when the three counts are zero, and otherwise the non-zero clauses in the
\* order added, removed, updated, joined by ", ".
SummaryIsReference ==
  /\ [][\A t \in Tx, keymap \in Keymaps, changes \in AllChanges :
          AnalyzeEditorConfigResponse(t, keymap, changes) =>
            /\ SummaryAfter(t) = ReferenceSummary(changes)
            /\ (SummaryAfter(t) = "no changes") <=>
                 (changes.defined /\ changes.add = 0 /\ changes.remove = 0 /\ changes.update = 0)
            /\ (SummaryAfter(t) = "") <=> ~changes.defined]_vars
  /\ [](last.summary \in {ReferenceSummary(changes) : changes \in AllChanges})

\* A sync was written whose summary leaves out the zero count in the middle.
SummaryIsReferenceWitness ==
  /\ last.exit = "written"
  /\ last.summary = "2 added, 1 updated"

\* ------------------------------------------------------------------
\* What can be observed of the coordinator, whichever entry point started
\* a transaction: the transactions' service calls with their arguments and
\* the files read, the returned call's writes and messages, the files,
\* syncing and lastWrittenHash.
Observed ==
  <<[t \in Tx |-> [tx[t] EXCEPT !.entry = "any"]], [last EXCEPT !.entry = "any"],
    files, syncing, lastWrittenHash>>

\* The steps of a suspended native-to-shared transaction.
NativeStep(t) ==
  \/ LoadOnekeymapKeymapReturns(t)
  \/ AnalyzeEditorConfigReturns(t)
  \/ GenerateKeymapReturns(t)
  \/ EnsureDir(t)
  \/ WriteFile(t)
  \/ Finally(t)

\* C22: when onekeymap.json is absent and keybindings.json exists,
\* initializeIfNeeded does what one call of onVscodeKeybindingsChanged from
\* the same state does: its first segment leaves the state that call can
\* leave (same service call and arguments, same reads, same syncing and
\* lastWrittenHash), and the transaction it starts is a native-to-shared
\* transaction whose every further step, no-op and failure exits included,
\* is that handler's step.
InitializeIsNativeSync ==
  /\ [][(InitializeIfNeeded /\ ~Exists(onekeymapPath) /\ Exists(keybindingsPath)) =>
          \E seen \in {Observed'} :
             ENABLED (OnVscodeKeybindingsChanged /\ Observed' = seen)]_vars
  /\ [][\A t \in Tx :
          (tx[t].entry = initialize /\ tx'[t] # tx[t]) =>
             /\ tx[t].op = native
             /\ NativeStep(t)
             /\ tx'[t].pc # "idle" => (tx'[t].entry = initialize /\ tx'[t].op = native)
             /\ tx'[t].pc = "idle" => (last'.entry = initialize /\ last'.op = native)]_vars

\* Initialization ended without a write, as a native sync does when the
\* service reports no structural change.
InitializeIsNativeSyncWitness ==
  /\ last.entry = initialize /\ last.op = native
  /\ last.exit = "noChange"
  /\ last.calls = <<"analyzeEditorConfig">>

\* ------------------------------------------------------------------
\* Transaction t comes to the point where it calls writeFile.
ReachesWrite(t) == tx[t].pc # "writeFile" /\ tx'[t].pc = "writeFile"

\* C23 as stated: in both directions a transaction comes to its write
\* with syncing set, through the step that ensures the target's parent
\* directory, with the target's hash recorded.
EnsureDirBeforeEveryWrite ==
  [][\A t \in Tx : ReachesWrite(t) =>
        /\ tx[t].pc = "ensureDir"
        /\ syncing /\ syncing'
        /\ lastWrittenHash'[TargetOf(tx'[t])] = contentHash(tx'[t].newContent)]_vars

\* C23 (amended): a native-to-shared transaction sets syncing, then ensures
\* the parent directory of onekeymap.json, then records
\* lastWrittenHash[onekeymapPath], then writes; a shared-to-native
\* transaction sets syncing, records lastWrittenHash[keybindingsPath] and
\* writes, without an ensure-directory step.
EnterWriteSection ==
  /\ [][\A t \in Tx : ReachesWrite(t) =>
          /\ syncing'
          /\ lastWrittenHash'[TargetOf(tx'[t])] = contentHash(tx'[t].newContent)
          /\ tx[t].op = native =>
               (tx[t].pc = "ensureDir" /\ syncing /\ TargetOf(tx'[t]) = onekeymapPath)
          /\ tx[t].op = shared =>
               (tx[t].pc = "generateEditorConfig" /\ TargetOf(tx'[t]) = keybindingsPath)]_vars
  /\ [][\A t \in Tx : (tx[t].pc # "ensureDir" /\ tx'[t].pc = "ensureDir") =>
          (tx[t].op = native /\ tx[t].pc = "generateKeymap" /\ syncing')]_vars
  /\ [][\A t \in Tx : (tx[t].pc = "writeFile" /\ tx'[t].pc = "finally") =>
          /\ syncing
          /\ lastWrittenHash[TargetOf(tx[t])] = contentHash(tx[t].newContent)
          /\ files' = [files EXCEPT ![TargetOf(tx[t])] = tx[t].newContent]]_vars
  /\ [](\A t \in Tx : tx[t].pc = "ensureDir" => tx[t].op = native)

\* A shared-to-native transaction is about to write keybindings.json.
EnterWriteSectionWitness ==
  \E t \in Tx : /\ tx[t].op = shared /\ tx[t].pc = "writeFile"
                /\ syncing
                /\ lastWrittenHash[keybindingsPath] = contentHash(tx[t].newContent)

\* ------------------------------------------------------------------
\* C24: in both directions the hash of the new content is recorded for
\* the target before writeFile is called and while syncing is set, so from
\* the write until the transaction has returned (and as long as nothing
\* else has happened since the write) lastWrittenHash[target] is the hash
\* of the content the target was given.
HashRecordedBeforeWrite ==
  /\ [][\A t \in Tx : (tx[t].pc = "writeFile" /\ tx'[t].pc = "finally") =>
          /\ syncing
          /\ lastWrittenHash[TargetOf(tx[t])] = contentHash(tx[t].newContent)
          /\ files'[TargetOf(tx[t])] = tx[t].newContent
          /\ UNCHANGED lastWrittenHash]_vars
  /\ [](\A t \in Tx : tx[t].pc \in {"writeFile", "finally"} =>
          /\ syncing
          /\ lastWrittenHash[TargetOf(tx[t])] = contentHash(tx[t].newContent))
  /\ [](lastWrite # <<>> =>
          /\ files[lastWrite[1]] = lastWrite[2]
          /\ lastWrittenHash[lastWrite[1]] = contentHash(lastWrite[2]))

\* onekeymap.json holds the generated content, the transaction that wrote
\* it has not yet left its write section.
HashRecordedBeforeWriteWitness ==
  \E t \in Tx : /\ tx[t].op = native /\ tx[t].pc = "finally"
                /\ syncing
                /\ files[onekeymapPath] = tx[t].newContent
                /\ lastWrite = <<onekeymapPath, tx[t].newContent>>
                /\ lastWrittenHash[onekeymapPath] = contentHash(files[onekeymapPath])

\* ------------------------------------------------------------------
\* The suspension points and write steps of a transaction, in the order of
\* the handler's text.
StepOrder(op) ==
  IF op = native
  THEN <<"loadOnekeymapKeymap", "analyzeEditorConfig", "generateKeymap",
         "ensureDir", "writeFile", "finally">>
  ELSE <<"parseKeymap", "generateEditorConfig", "writeFile", "finally">>
StepNo(op, pc) == CHOOSE i \in 1 .. Len(StepOrder(op)) : StepOrder(op)[i] = pc
\* The service calls made on the way to a step, and the files read.
CallsUpTo(op, pc) ==
  IF op = native
  THEN CASE pc = "loadOnekeymapKeymap" -> {<<"parseKeymap">>}
         [] pc = "analyzeEditorConfig" -> {<<"parseKeymap", "analyzeEditorConfig">>,
                                           <<"analyzeEditorConfig">>}
         [] OTHER -> {<<"parseKeymap", "analyzeEditorConfig", "generateKeymap">>,
                      <<"analyzeEditorConfig", "generateKeymap">>}
  ELSE CASE pc = "parseKeymap" -> {<<"parseKeymap">>}
         [] OTHER -> {<<"parseKeymap", "generateEditorConfig">>}
ReadsUpTo(op, pc) ==
  IF op = native THEN <<keybindingsPath, onekeymapPath>>
  ELSE IF pc = "parseKeymap" THEN <<onekeymapPath>>
  ELSE <<onekeymapPath, keybindingsPath>>
GenerateCall(op) == IF op = native THEN "generateKeymap" ELSE "generateEditorConfig"

\* C25: a transaction goes through its steps in the handler's order, one
\* after the other (a native-to-shared transaction starts at
\* analyzeEditorConfig only when onekeymap.json could not be read for the
\* baseline); at every step the calls made and files read so far are those
\* of the steps before it; and a file is written only by a transaction
\* whose generate call has been made and has not thrown, with the content
\* that call produced, the success message coming after the write.
StepsInOrder ==
  /\ [][\A t \in Tx :
          /\ (tx[t].pc = "idle" /\ tx'[t].pc # "idle") =>
               /\ ~syncing
               /\ ~HashGuard(SourceOf(tx'[t].op), tx'[t].content)
               /\ tx'[t].content = files[SourceOf(tx'[t].op)]
               /\ StepNo(tx'[t].op, tx'[t].pc) =
                    (IF tx'[t].op = native /\ ~Exists(onekeymapPath) THEN 2 ELSE 1)
          /\ (tx[t].pc # "idle" /\ tx'[t].pc # "idle" /\ tx'[t].pc # tx[t].pc) =>
               /\ tx'[t].op = tx[t].op
               /\ StepNo(tx[t].op, tx'[t].pc) = StepNo(tx[t].op, tx[t].pc) + 1
          /\ (tx[t].pc # "idle" /\ tx'[t].pc = "idle" /\ last'.msgs # <<>>
                /\ last'.msgs # CatchReport(tx[t].op)) =>
               (tx[t].pc = "finally" /\ last'.exit = "written"
                  /\ last'.wrote = <<<<TargetOf(tx[t]), tx[t].newContent>>>>)]_vars
  /\ [](\A t \in Tx : tx[t].pc # "idle" =>
          /\ tx[t].calls \in CallsUpTo(tx[t].op, tx[t].pc)
          /\ tx[t].reads = ReadsUpTo(tx[t].op, tx[t].pc)
          /\ tx[t].pc \in WriteSection =>
               (GenerateCall(tx[t].op) \notin {tx[t].threw[i] : i \in 1 .. Len(tx[t].threw)}))
  /\ [][files' # files =>
          \/ \E path \in Paths, content \in Contents \cup {Missing} : ExternalEdit(path, content)
          \/ \E t \in Tx :
               /\ tx[t].pc = "writeFile" /\ tx'[t].pc = "finally"
               /\ tx[t].calls[Len(tx[t].calls)] = GenerateCall(tx[t].op)
               /\ GenerateCall(tx[t].op) \notin {tx[t].threw[i] : i \in 1 .. Len(tx[t].threw)}
               /\ files' = [files EXCEPT ![TargetOf(tx[t])] = tx[t].newContent]]_vars
  /\ [](last.wrote # <<>> =>
          /\ last.exit = "written"
          /\ last.calls \in CallsUpTo(last.op, "finally")
          /\ last.reads = ReadsUpTo(last.op, "finally"))

\* A native-to-shared transaction that went through every step, the
\* baseline parse included, has written and reported.
StepsInOrderWitness ==
  /\ last.op = native /\ last.exit = "written"
  /\ last.calls = <<"parseKeymap", "analyzeEditorConfig", "generateKeymap">>
  /\ last.reads = <<keybindingsPath, onekeymapPath>>
  /\ Len(last.msgs) = 1

\* ------------------------------------------------------------------
\* Each service operation occurs at most once in a sequence of calls.
AtMostOnce(calls) ==
  \A i \in 1 .. Len(calls) : \A j \in 1 .. Len(calls) : calls[i] = calls[j] => i = j
\* Every call that threw was the last call made.
FailureEndsCalls(r) ==
  \A i \in 1 .. Len(r.threw) : r.calls # <<>> /\ r.calls[Len(r.calls)] = r.threw[i]
\* ... except the parseKeymap call of loadOnekeymapKeymap, whose failure
\* is caught there.
FailureEndsCallsButBaseline(r) ==
  \A i \in 1 .. Len(r.threw) :
     \/ r.calls # <<>> /\ r.calls[Len(r.calls)] = r.threw[i]
     \/ r.op = native /\ i = 1 /\ r.threw[i] = "parseKeymap" /\ r.calls[1] = "parseKeymap"

\* C26 as stated: a transaction calls each service operation at most once,
\* and makes no service call after one that failed.
NoCallAfterAnyFailure ==
  /\ \A t \in Tx : AtMostOnce(tx[t].calls) /\ FailureEndsCalls(tx[t])
  /\ AtMostOnce(last.calls) /\ FailureEndsCalls(last)

\* C26 (amended): a transaction calls each service operation at most once,
\* and makes no service call after one that failed, save that a failed
\* baseline parseKeymap in the native-to-shared direction is followed by
\* analyzeEditorConfig without a baseline (and then generateKeymap).
NoRetry ==
  /\ \A t \in Tx :
       /\ AtMostOnce(tx[t].calls) /\ FailureEndsCallsButBaseline(tx[t])
       /\ (tx[t].pc # "idle" /\ tx[t].threw # <<>>) =>
            (tx[t].op = native /\ tx[t].threw = <<"parseKeymap">>)
  /\ AtMostOnce(last.calls) /\ FailureEndsCallsButBaseline(last)
  /\ last.op = shared => FailureEndsCalls(last)
  /\ Len(last.threw) <= 2

\* The baseline parse failed and the sync was carried through.
NoRetryWitness ==
  /\ last.op = native /\ last.exit = "written"
  /\ last.threw = <<"parseKeymap">>
  /\ last.calls = <<"parseKeymap", "analyzeEditorConfig", "generateKeymap">>

\* ------------------------------------------------------------------
\* In this step native-to-shared transaction t returns on a
\* no-structural-change answer of analyzeEditorConfig.
ReturnsNoChange(t) ==
  /\ tx[t].op = native /\ tx[t].pc = "analyzeEditorConfig"
  /\ tx'[t].pc = "idle" /\ last'.exit = "noChange"

\* C27: when analyzeEditorConfig reports no structural change for the
\* content C the transaction read from keybindings.json, the coordinator
\* sets lastWrittenHash[keybindingsPath] to the hash of C and changes nothing
\* else (the files, lastWrittenHash[onekeymapPath] and syncing stay as they
\* are, nothing is written or reported), the transaction having changed
\* nothing before; and the next onVscodeKeybindingsChanged, if it reads C,
\* returns at the hash guard without a service call.
NoChangeRecordsSeenOnly ==
  /\ [][\A t \in Tx : ReturnsNoChange(t) =>
          /\ lastWrittenHash' =
               [lastWrittenHash EXCEPT ![keybindingsPath] = contentHash(tx[t].content)]
          /\ lastWrittenHash'[onekeymapPath] = lastWrittenHash[onekeymapPath]
          /\ UNCHANGED <<files, syncing>>
          /\ ~syncing
          /\ last'.content = tx[t].content
          /\ last'.wrote = <<>> /\ last'.msgs = <<>>]_vars
  /\ [][\A t \in Tx :
          (/\ tx'[t].op = native /\ tx'[t] # tx[t]
           /\ tx'[t].pc \in {"loadOnekeymapKeymap", "analyzeEditorConfig", "generateKeymap"})
          => UNCHANGED <<files, syncing, lastWrittenHash>>]_vars
  /\ [][(/\ last.op = native /\ last.exit = "noChange"
         /\ files[keybindingsPath] = last.content
         /\ OnVscodeKeybindingsChanged)
        => /\ last'.exit = "hash" /\ last'.calls = <<>>
           /\ last'.wrote = <<>> /\ last'.msgs = <<>>
           /\ UNCHANGED <<files, syncing, lastWrittenHash, tx>>]_vars

\* After a no-change result for the content of keybindings.json, the next
\* call of the handler found that content again and returned at the hash
\* guard; onekeymap.json has no entry.
NoChangeRecordsSeenOnlyWitness ==
  /\ last.op = native /\ last.repeatOf = "noChange" /\ last.exit = "hash"
  /\ last.calls = <<>>
  /\ lastWrittenHash[keybindingsPath] = contentHash(files[keybindingsPath])
  /\ lastWrittenHash[onekeymapPath] = NoHash

\* ------------------------------------------------------------------
\* The coordinator with its watchers, nobody else touching the files: the
\* handlers are invoked at any time (a timer armed by an earlier edit, the
\* sync command), also while transactions are suspended, and every write of
\* the coordinator leaves a notification for the file it wrote.
EchoInit ==
  /\ files \in [Paths -> Contents \cup {Missing}]
  /\ syncing = FALSE
  /\ lastWrittenHash = [p \in Paths |-> NoHash]
  /\ tx = [t \in Tx |-> IdleTx]
  /\ fresh = FALSE
  /\ overlap = TRUE
  /\ activation = "none"
  /\ keymapWatcher = NoWatchers
  /\ last = NoLast
  /\ lastWrite = <<>>
  /\ notify = {}

EchoNext ==
  \/ OnVscodeKeybindingsChanged
  \/ OnOnekeymapConfigChanged
  \/ NotifiedVscodeKeybindingsChanged
  \/ NotifiedOnekeymapConfigChanged
  \/ \E t \in Tx : LoadOnekeymapKeymapReturns(t)
  \/ \E t \in Tx : AnalyzeEditorConfigReturns(t)
  \/ \E t \in Tx : GenerateKeymapReturns(t)
  \/ \E t \in Tx : ParseKeymapReturns(t)
  \/ \E t \in Tx : GenerateEditorConfigReturns(t)
  \/ \E t \in Tx : EnsureDir(t)
  \/ \E t \in Tx : NotifyingWriteFile(t)
  \/ \E t \in Tx : Finally(t)

SpecEcho == EchoInit /\ [][EchoNext]_vars

\* C28: whatever transactions are suspended or complete in between, the
\* handler run for the notification of a coordinator write to P, while P
\* holds what the coordinator wrote, returns at a guard: no service call,
\* no write.
EchoSuppressedUnderInterleaving ==
  [][(NotifiedVscodeKeybindingsChanged \/ NotifiedOnekeymapConfigChanged) =>
        /\ last'.exit \in {"syncing", "hash"}
        /\ NothingDone(last')
        /\ tx' = tx]_vars

\* ------------------------------------------------------------------
\* Edits from outside, one at a time: somebody changes a file when the
\* coordinator is at rest and no notification is pending; the file's watcher
\* then invokes the handler, which runs to its end before the next edit.
\* (The notifications of the coordinator's own writes are left out: `notify`
\* holds the files edited from outside and not yet handled.)
EditsInit ==
  /\ files \in [Paths -> Contents \cup {Missing}]
  /\ syncing = FALSE
  /\ lastWrittenHash = [p \in Paths |-> NoHash]
  /\ tx = [t \in Tx |-> IdleTx]
  /\ fresh = FALSE
  /\ overlap = FALSE
  /\ activation = "none"
  /\ keymapWatcher = NoWatchers
  /\ last = NoLast
  /\ lastWrite = <<>>
  /\ notify = {}

NotifyingExternalEdit(path, content) ==
  /\ AllIdle /\ notify = {}
  /\ content # files[path]
  /\ files' = [files EXCEPT ![path] = content]
  /\ last' = NoLast
  /\ lastWrite' = IF lastWrite # <<>> /\ lastWrite[1] = path THEN <<>> ELSE lastWrite
  /\ notify' = {path}
  /\ UNCHANGED <<syncing, lastWrittenHash, tx, fresh, overlap, activation, keymapWatcher>>

EditsNext ==
  \/ \E path \in Paths, content \in Contents : NotifyingExternalEdit(path, content)
  \/ TriggeredVscodeKeybindingsChanged
  \/ TriggeredOnekeymapConfigChanged
  \/ \E t \in Tx : LoadOnekeymapKeymapReturns(t)
  \/ \E t \in Tx : AnalyzeEditorConfigReturns(t)
  \/ \E t \in Tx : GenerateKeymapReturns(t)
  \/ \E t \in Tx : ParseKeymapReturns(t)
  \/ \E t \in Tx : GenerateEditorConfigReturns(t)
  \/ \E t \in Tx : EnsureDir(t)
  \/ \E t \in Tx : WriteFile(t)
  \/ \E t \in Tx : Finally(t)

SpecEdits == EditsInit /\ [][EditsNext]_vars

\* C29: the handler invoked for an edit made from outside, reading the
\* edited file, is never stopped by the hash guard, whatever the coordinator
\* wrote or saw before (also when the edit restores an earlier content).
GenuineEditNotSuppressed ==
  [][(TriggeredVscodeKeybindingsChanged \/ TriggeredOnekeymapConfigChanged) =>
        last'.exit # "hash"]_vars

\* ------------------------------------------------------------------
\* keybindings.json is edited again and again, also while transactions are
\* suspended; every edit and every write of the coordinator leaves a
\* notification, which its watcher hands to the handler; the service
\* always answers, with a keymap and a non-empty diff, and generates for a
\* transaction the content that belongs to the native content it read (the
\* same content value, in this model); the file system does not fail, and
\* a watcher's timer callback runs between the coordinator's segments, not
\* inside the synchronous write section.
ConvergeInit ==
  /\ files \in [Paths -> Contents \cup {Missing}]
  /\ files[keybindingsPath] \in Contents
  /\ syncing = FALSE
  /\ lastWrittenHash = [p \in Paths |-> NoHash]
  /\ tx = [t \in Tx |-> IdleTx]
  /\ fresh = FALSE
  /\ overlap = TRUE
  /\ activation = "none"
  /\ keymapWatcher = NoWatchers
  /\ last = NoLast
  /\ lastWrite = <<>>
  /\ notify = {keybindingsPath}

NativeEdit(content) ==
  /\ content # files[keybindingsPath]
  /\ files' = [files EXCEPT ![keybindingsPath] = content]
  /\ last' = NoLast
  /\ lastWrite' = IF lastWrite # <<>> /\ lastWrite[1] = keybindingsPath THEN <<>> ELSE lastWrite
  /\ notify' = notify \cup {keybindingsPath}
  /\ UNCHANGED <<syncing, lastWrittenHash, tx, fresh, overlap, activation, keymapWatcher>>

GeneratedFrom(content) == content

ConvergeNext ==
  \/ \E content \in Contents : NativeEdit(content)
  \/ ~InWriteSection /\ NotifiedVscodeKeybindingsChanged
  \/ ~InWriteSection /\ NotifiedOnekeymapConfigChanged
  \/ \E t \in Tx, keymap \in Keymaps : LoadOnekeymapKeymapResponse(t, keymap)
  \/ \E t \in Tx, keymap \in Keymaps : AnalyzeEditorConfigResponse(t, keymap, Changes(1, 0, 2))
  \/ \E t \in Tx : GenerateKeymapResponse(t, GeneratedFrom(tx[t].content))
  \/ \E t \in Tx : EnsureDir(t) /\ tx'[t].pc = "writeFile"
  \/ \E t \in Tx : NotifyingWriteFile(t) /\ tx'[t].pc = "finally"
  \/ \E t \in Tx : Finally(t)

SpecConverge == ConvergeInit /\ [][ConvergeNext]_vars

\* C30: once every notification has been handled and every transaction has
\* finished, onekeymap.json holds the content generated from what
\* keybindings.json holds then, whatever the interleaving was.
ConvergesToFinalEdit ==
  (AllIdle /\ notify = {}) =>
     files[onekeymapPath] = GeneratedFrom(files[keybindingsPath])

SuccessOf(r) == IF r.op = native THEN SyncedFromVscode(r.summary) ELSE SyncedFromOnekeymap
FailureOf(r) == IF r.op = native THEN SyncFailedVscode ELSE SyncFailedOnekeymap

\* C32: a transaction shows at most one status message; the success
\* message only when its write was carried out, the failure message only
\* when a service call, ensureDir or writeFile threw into the handler's
\* catch, never both; and a write that throws gives the failure message of
\* the transaction's direction and no success message.
OneMessagePerTransaction ==
  /\ [](/\ Len(last.msgs) <= 1
        /\ last.msgs # <<>> => last.msgs \in {<<SuccessOf(last)>>, <<FailureOf(last)>>}
        /\ last.msgs = <<SuccessOf(last)>> =>
             /\ last.exit = "written"
             /\ last.wrote = <<<<TargetOf(last), last.wrote[1][2]>>>>
             /\ Uncaught(last) = {}
        /\ last.msgs = <<FailureOf(last)>> =>
             /\ last.exit \in {"callFailed", "ensureDirFailed", "writeFailed"}
             /\ last.exit = "callFailed" => Uncaught(last) # {}
             /\ last.wrote = <<>>
        /\ last.exit \in {"ensureDirFailed", "writeFailed"} => last.msgs = <<FailureOf(last)>>
        /\ last.exit = "written" => last.msgs = <<SuccessOf(last)>>)
  /\ [][\A t \in Tx : (tx[t].pc = "writeFile" /\ tx'[t].pc = "idle") =>
          /\ files' = files
          /\ last'.exit = "writeFailed"
          /\ last'.msgs = <<FailureOf(tx[t])>>
          /\ ~syncing']_vars

\* writeFile threw in a shared-to-native transaction.
OneMessagePerTransactionWitness ==
  /\ last.op = shared /\ last.exit = "writeFailed"
  /\ last.msgs = <<SyncFailedOnekeymap>>
  /\ last.threw = <<>>

\* ------------------------------------------------------------------
\* In this step transaction t of handler op calls writeFile and it succeeds.
WritesBy(op, t) == tx[t].op = op /\ tx[t].pc = "writeFile" /\ tx'[t].pc = "finally"
EditedOutside == \E path \in Paths, content \in Contents \cup {Missing} : ExternalEdit(path, content)

\* C33: keybindings.json is changed only by a shared-to-native
\* transaction's writeFile (or from outside) and onekeymap.json only by a
\* native-to-shared one's (initializeIfNeeded included); the entry of
\* onekeymap.json in lastWrittenHash changes only when a native-to-shared
\* transaction is about to call writeFile on onekeymap.json, never in a
\* step of a shared-to-native transaction.
HandlersWriteOnlyTarget ==
  /\ [][files'[keybindingsPath] # files[keybindingsPath] =>
          \/ EditedOutside
          \/ \E t \in Tx : WritesBy(shared, t) /\ files'[onekeymapPath] = files[onekeymapPath]]_vars
  /\ [][files'[onekeymapPath] # files[onekeymapPath] =>
          \/ EditedOutside
          \/ \E t \in Tx : WritesBy(native, t) /\ files'[keybindingsPath] = files[keybindingsPath]]_vars
  /\ [][lastWrittenHash'[onekeymapPath] # lastWrittenHash[onekeymapPath] =>
          \E t \in Tx : /\ tx[t].op = native /\ tx[t].pc = "ensureDir"
                        /\ tx'[t].pc = "writeFile"
                        /\ lastWrittenHash'[onekeymapPath] = contentHash(tx'[t].newContent)]_vars
  /\ [][\A t \in Tx : (tx[t].op = shared /\ tx'[t] # tx[t]) =>
          /\ files'[onekeymapPath] = files[onekeymapPath]
          /\ lastWrittenHash'[onekeymapPath] = lastWrittenHash[onekeymapPath]]_vars
  /\ [][\A t \in Tx : (tx[t].op = native /\ tx'[t] # tx[t]) =>
          files'[keybindingsPath] = files[keybindingsPath]]_vars
  /\ [](last.wrote # <<>> => last.wrote[1][1] = TargetOf(last))

\* initializeIfNeeded created onekeymap.json and left keybindings.json and
\* its entry alone.
HandlersWriteOnlyTargetWitness ==
  /\ last.entry = initialize /\ last.exit = "written"
  /\ last.wrote[1][1] = onekeymapPath
  /\ files[keybindingsPath] = last.content
  /\ lastWrittenHash[keybindingsPath] = NoHash
  /\ lastWrittenHash[onekeymapPath] = contentHash(files[onekeymapPath])

\* ------------------------------------------------------------------
\* C34: when analyzeEditorConfig answers with a keymap and without a
\* changes object, the transaction goes on: it calls generateKeymap with
\* that keymap, and when the write is done it reports success with an
\* empty summary; the write is skipped only for a changes object that is
\* there and has three empty lists.
AbsentChangesStillSynced ==
  /\ [][\A t \in Tx, keymap \in Keymaps :
          AnalyzeEditorConfigResponse(t, keymap, UndefinedChanges) =>
            /\ tx'[t].pc = "generateKeymap"
            /\ tx'[t].summary = ""
            /\ tx'[t].args = <<keymap>>
            /\ tx'[t].calls = Append(tx[t].calls, "generateKeymap")
            /\ UNCHANGED <<files, syncing, lastWrittenHash>>]_vars
  /\ [][\A t \in Tx, keymap \in Keymaps, changes \in ServiceChanges :
          (AnalyzeEditorConfigResponse(t, keymap, changes) /\ tx'[t].pc = "idle") =>
            /\ changes = Changes(0, 0, 0)
            /\ last'.exit = "noChange"]_vars
  /\ [][\A t \in Tx :
          (tx[t].op = native /\ tx[t].pc = "finally" /\ tx[t].summary = "" /\ tx'[t].pc = "idle") =>
            /\ last'.exit = "written"
            /\ last'.wrote = <<<<onekeymapPath, tx[t].newContent>>>>
            /\ last'.msgs = <<"OneKeymap: Synced from VS Code ()">>]_vars
  /\ [](last.exit = "noChange" => last.summary = "no changes")

\* A sync carried through on a response without a changes object.
AbsentChangesStillSyncedWitness ==
  /\ last.op = native /\ last.exit = "written"
  /\ last.summary = ""
  /\ last.msgs = <<"OneKeymap: Synced from VS Code ()">>
  /\ files[onekeymapPath] = last.wrote[1][2]

\* =====================================================================
\* KeymapWatcher: fs.watch on one path, debounced by a timer.
\* Time is counted in ticks; the delay of setTimeout(.., 1000) is
\* DebounceTicks of them.
DebounceTicks == 2
\* fs.watch events raised and not yet delivered, per watcher, at most
MaxEvents == 2
\* a burst has at most MaxBurst events
MaxBurst == 3

EventTypes == {"rename", "change"}

Min(a, b) == IF a < b THEN a ELSE b

\* clearTimeout(id): the timer is not scheduled any more (no effect on a
\* timer that has fired or was cleared)
clearTimeout(timers, id) == {t \in timers : t.id # id}

\* setTimeout returns a Timeout object no one holds yet
NewTimeout(w) ==
  CHOOSE id \in 1..(Cardinality(w.timers) + 2) :
    /\ id # w.debounceTimer
    /\ \A t \in w.timers : t.id # id
    /\ \A other \in 1..(id - 1) : other = w.debounceTimer \/ \E t \in w.timers : t.id = other

\* (mutant) stop() leaves the debounce timer scheduled
stopKeepsTimer(w) ==
  [w EXCEPT !.watcher = "undefined",
            !.handles = IF w.watcher = "open" THEN w.handles - 1 ELSE w.handles,
            !.stale = FALSE, !.events = <<>>]

\* stop(): close the handle, clear the timer.  A closed handle delivers no
\* event any more.
stop(w) ==
  LET closed == IF w.watcher = "open"
                THEN [w EXCEPT !.watcher = "undefined", !.handles = w.handles - 1,
                               !.stale = FALSE, !.events = <<>>]
                ELSE w
  IN IF closed.debounceTimer # 0
     THEN [closed EXCEPT !.timers = clearTimeout(closed.timers, closed.debounceTimer),
                         !.debounceTimer = 0]
     ELSE closed

\* start(): stop(), then fs.watch(filePath, ..), which throws when the file
\* does not exist (caught and logged: the watcher stays stopped).
start(w, exists) ==
  LET clean == stop(w)
  IN IF exists
     THEN [clean EXCEPT !.watcher = "open", !.handles = clean.handles + 1]
     ELSE clean

dispose(w) == stop(w)

\* (mutant) triggerSync() schedules a timer without clearing the pending one
triggerSyncKeepsTimer(w) ==
  LET id == NewTimeout(w)
  IN [w EXCEPT !.timers = w.timers \cup {[id |-> id, remaining |-> DebounceTicks]},
               !.debounceTimer = id,
               !.burst = Min(w.burst + 1, MaxBurst), !.sinceEvent = 0, !.invoked = FALSE]

\* triggerSync(): clear the timer held, schedule a new one
triggerSync(w) ==
  LET cleared == IF w.debounceTimer # 0
                 THEN clearTimeout(w.timers, w.debounceTimer) ELSE w.timers
      id == NewTimeout(w)
  IN [w EXCEPT !.timers = cleared \cup {[id |-> id, remaining |-> DebounceTicks]},
               !.debounceTimer = id,
               !.burst = Min(w.burst + 1, MaxBurst), !.sinceEvent = 0, !.invoked = FALSE]

handleChange(w) == triggerSync(w)

handleRename(w, exists) ==
  IF exists THEN start(triggerSync(w), exists) ELSE stop(w)

handleEvent(w, eventType, exists) ==
  IF eventType = "rename" THEN handleRename(w, exists)
  ELSE IF eventType = "change" THEN handleChange(w)
  ELSE w

\* The timer's callback: `this.syncer.sync()`.  The field debounceTimer
\* keeps the Timeout that has fired.
timerCallback(w, timer) ==
  [w EXCEPT !.timers = w.timers \ {timer}, !.burst = 0, !.invoked = TRUE]

\* ---------------------------------------------------------------------
\* The watcher's steps.  They leave the coordinator alone.
Coordinator == <<syncing, lastWrittenHash, tx, fresh, overlap, last, lastWrite>>

Pending(path) == keymapWatcher[path].timers
Due(path) == {t \in Pending(path) : t.remaining = 0}

\* the owner calls start() / stop() / dispose()
CallStart(path) ==
  /\ keymapWatcher' = [keymapWatcher EXCEPT ![path] = start(@, Exists(path))]
  /\ UNCHANGED <<files, notify, activation, Coordinator>>

CallStop(path) ==
  /\ keymapWatcher' = [keymapWatcher EXCEPT ![path] = stop(@)]
  /\ UNCHANGED <<files, notify, activation, Coordinator>>

CallDispose(path) ==
  /\ keymapWatcher' = [keymapWatcher EXCEPT ![path] = dispose(@)]
  /\ UNCHANGED <<files, notify, activation, Coordinator>>

\* fs.watch delivers the oldest event of the open handle to handleEvent
Delivered(path) ==
  /\ keymapWatcher[path].watcher = "open"
  /\ keymapWatcher[path].events # <<>>
  /\ keymapWatcher' =
       [keymapWatcher EXCEPT
          ![path] = handleEvent([@ EXCEPT !.events = Tail(@)], Head(@.events), Exists(path))]
  /\ UNCHANGED <<files, notify, activation, Coordinator>>

\* a timer is due: its callback invokes the sync
TimerFires(path) ==
  /\ \E timer \in Due(path) :
       keymapWatcher' = [keymapWatcher EXCEPT ![path] = timerCallback(@, timer)]
  /\ notify' = notify \cup {path}
  /\ UNCHANGED <<files, activation, Coordinator>>

\* time passes, as long as no timer is due
Tick ==
  /\ \A path \in Paths : Due(path) = {}
  /\ keymapWatcher' =
       [path \in Paths |->
          [keymapWatcher[path] EXCEPT
             !.timers = {[t EXCEPT !.remaining = @ - 1] : t \in @},
             !.sinceEvent = Min(@ + 1, DebounceTicks)]]
  /\ UNCHANGED <<files, notify, activation, Coordinator>>

\* fs.watch raises an event on the handle that watches the file's inode
Raise(w, eventType) ==
  IF w.watcher = "open" /\ ~w.stale THEN [w EXCEPT !.events = Append(@, eventType)] ELSE w

Raising(path, eventType, stale) ==
  /\ Len(keymapWatcher[path].events) < MaxEvents
  /\ keymapWatcher' =
       [keymapWatcher EXCEPT
          ![path] = [Raise(@, eventType) EXCEPT !.stale = IF @ THEN TRUE ELSE stale /\ keymapWatcher[path].watcher = "open"]]

\* The file system: a file is written in place, replaced by a new file
\* (atomic save: written beside it and renamed over it), removed, created.
FileChanged(path, content) ==
  /\ Exists(path)
  /\ content # files[path]
  /\ files' = [files EXCEPT ![path] = content]
  /\ Raising(path, "change", FALSE)
  /\ UNCHANGED <<notify, activation, Coordinator>>

FileReplaced(path, content) ==
  /\ Exists(path)
  /\ files' = [files EXCEPT ![path] = content]
  /\ Raising(path, "rename", TRUE)
  /\ UNCHANGED <<notify, activation, Coordinator>>

FileRemoved(path) ==
  /\ Exists(path)
  /\ files' = [files EXCEPT ![path] = Missing]
  /\ Raising(path, "rename", TRUE)
  /\ UNCHANGED <<notify, activation, Coordinator>>

FileCreated(path, content) ==
  /\ ~Exists(path)
  /\ files' = [files EXCEPT ![path] = content]
  /\ UNCHANGED <<keymapWatcher, notify, activation, Coordinator>>

\* One KeymapWatcher (the one on keybindings.json), its owner free to start
\* and stop it at any time.
Watched == {keybindingsPath}

WatcherInit ==
  /\ Constructed
  /\ overlap = FALSE
  /\ activation = "none"
  /\ keymapWatcher = NoWatchers

WatcherNext ==
  \/ \E path \in Watched : CallStart(path)
  \/ \E path \in Watched : CallStop(path)
  \/ \E path \in Watched : CallDispose(path)
  \/ \E path \in Watched : Delivered(path)
  \/ \E path \in Watched : TimerFires(path)
  \/ Tick
  \/ \E path \in Watched, content \in Contents : FileChanged(path, content)
  \/ \E path \in Watched, content \in Contents : FileReplaced(path, content)
  \/ \E path \in Watched : FileRemoved(path)
  \/ \E path \in Watched, content \in Contents : FileCreated(path, content)

SpecWatcher == WatcherInit /\ [][WatcherNext]_vars

\* ---------------------------------------------------------------------
\* A started watcher on an existing file that is written in place, in
\* bursts of at most MaxBurst writes.
DebounceInit ==
  /\ Constructed
  /\ \A path \in Watched : Exists(path)
  /\ overlap = FALSE
  /\ activation = "none"
  /\ keymapWatcher = [path \in Paths |-> IF path \in Watched THEN start(NewWatcher, TRUE)
                                         ELSE NewWatcher]

BurstChange(path, content) ==
  /\ keymapWatcher[path].burst + Len(keymapWatcher[path].events) < MaxBurst
  /\ FileChanged(path, content)

DebounceNext ==
  \/ \E path \in Watched, content \in Contents : BurstChange(path, content)
  \/ \E path \in Watched : Delivered(path)
  \/ \E path \in Watched : TimerFires(path)
  \/ Tick

\* The event loop delivers every event raised and runs every timer that is
\* due; time passes.
SpecDebounce ==
  /\ DebounceInit
  /\ [][DebounceNext]_vars
  /\ WF_vars(Tick)
  /\ \A path \in Watched : WF_vars(Delivered(path)) /\ WF_vars(TimerFires(path))

\* C35: debounce.  At most one timer of a watcher is pending at any time;
\* every change event delivered cancels the pending timer and schedules a new
\* one with the full delay; a timer fires only a full delay after the last
\* event, once for the burst (no timer is left when it has fired); and every
\* burst is followed by that one invocation of the sync.
DebounceOneSync ==
  /\ [](\A path \in Paths : Cardinality(Pending(path)) <= 1)
  /\ [][\A path \in Watched :
          Delivered(path) /\ Head(keymapWatcher[path].events) = "change"
          => /\ Pending(path)' = {[id |-> keymapWatcher'[path].debounceTimer,
                                   remaining |-> DebounceTicks]}
             /\ \A t \in Pending(path) : t.id # keymapWatcher'[path].debounceTimer
             /\ keymapWatcher'[path].burst = keymapWatcher[path].burst + 1]_vars
  /\ [][\A path \in Watched :
          TimerFires(path)
          => /\ keymapWatcher[path].sinceEvent = DebounceTicks
             /\ keymapWatcher[path].burst >= 1
             /\ ~keymapWatcher[path].invoked
             /\ Pending(path)' = {}
             /\ path \in notify']_vars
  /\ \A path \in Watched :
       (keymapWatcher[path].burst >= 1)
         ~> (keymapWatcher[path].invoked /\ keymapWatcher[path].burst = 0)

\* a burst of two events or more, its one timer due
DebounceOneSyncWitness ==
  \E path \in Watched :
    /\ keymapWatcher[path].burst >= 2
    /\ Cardinality(Pending(path)) = 1
    /\ Due(path) # {}

\* ---------------------------------------------------------------------
\* C36: a rename event delivered while the file exists (atomic save) leaves
\* the debounce timer scheduled, so that the sync is invoked after the
\* delay, and leaves the watcher open again with exactly one handle.
RenameSyncsAndRewatches ==
  [][\A path \in Watched :
       Delivered(path) /\ Head(keymapWatcher[path].events) = "rename" /\ Exists(path)
       => /\ Pending(path)' = {[id |-> keymapWatcher'[path].debounceTimer,
                                remaining |-> DebounceTicks]}
          /\ keymapWatcher'[path].watcher = "open"
          /\ keymapWatcher'[path].handles = 1]_vars

\* ---------------------------------------------------------------------
\* C37: a watcher has at most one open handle; a stopped watcher (after
\* stop(), dispose(), or a rename event that found the file missing) has no
\* handle, no undelivered event and no timer scheduled; a sync is invoked
\* only by a watcher that is open, and a stopped watcher is opened only by a
\* call of start().
Stopped(path) == keymapWatcher[path].watcher = "undefined"

StoppedWatcherIsSilent ==
  /\ [](\A path \in Paths :
          /\ keymapWatcher[path].handles <= 1
          /\ Stopped(path) => /\ Pending(path) = {}
                              /\ keymapWatcher[path].handles = 0
                              /\ keymapWatcher[path].events = <<>>
                              /\ keymapWatcher[path].debounceTimer = 0)
  /\ [][\A path \in Watched :
          \/ CallStop(path)
          \/ CallDispose(path)
          \/ Delivered(path) /\ Head(keymapWatcher[path].events) = "rename" /\ ~Exists(path)
          => Stopped(path)']_vars
  /\ [][\A path \in Watched :
          /\ TimerFires(path) => ~Stopped(path)
          /\ Stopped(path) /\ ~Stopped(path)' => CallStart(path)
          /\ Stopped(path) /\ Stopped(path)' => notify' = notify]_vars

\* a watcher stopped in the middle of a burst: the timer of the burst is gone
StoppedWatcherIsSilentWitness ==
  \E path \in Watched :
    /\ Stopped(path)
    /\ keymapWatcher[path].burst >= 1
    /\ ~keymapWatcher[path].invoked
    /\ Pending(path) = {}

\* =====================================================================
\* activate(): once connected and keybindings.json found, construct the
\* coordinator, await initializeIfNeeded(), then start the watcher on
\* keybindings.json and, if onekeymap.json exists, the one on onekeymap.json.
ActivateInit ==
  /\ Constructed
  /\ Exists(keybindingsPath)
  /\ overlap = FALSE
  /\ activation = "initialize"
  /\ keymapWatcher = NoWatchers

AwaitInitializeIfNeeded ==
  /\ activation = "initialize"
  /\ InitializeIfNeeded

\* initializeIfNeeded() has returned: the watchers are constructed and started
StartWatchers ==
  /\ activation = "initialize"
  /\ ~fresh
  /\ AllIdle
  /\ activation' = "watching"
  /\ keymapWatcher' =
       [path \in Paths |->
          IF path = keybindingsPath \/ Exists(path)
          THEN start(keymapWatcher[path], Exists(path))
          ELSE keymapWatcher[path]]
  /\ UNCHANGED <<files, notify, Coordinator>>

\* the extension is deactivated: context.subscriptions are disposed
Deactivate ==
  /\ activation = "watching"
  /\ activation' = "deactivated"
  /\ keymapWatcher' = [path \in Paths |-> dispose(keymapWatcher[path])]
  /\ UNCHANGED <<files, notify, Coordinator>>

\* Activation and what the watchers do afterwards, onekeymap.json being
\* written, removed and created by the user or by other programs.  The sync
\* invocations of the watchers are recorded in notify; the coordinator's
\* part in them is left to the specifications above.
ActivateNext ==
  \/ AwaitInitializeIfNeeded
  \/ \E t \in Tx : AnalyzeEditorConfigReturns(t)
  \/ \E t \in Tx : GenerateKeymapReturns(t)
  \/ \E t \in Tx : EnsureDir(t)
  \/ \E t \in Tx : WriteFile(t)
  \/ \E t \in Tx : Finally(t)
  \/ StartWatchers
  \/ Deactivate
  \/ \E path \in Paths : Delivered(path)
  \/ \E path \in Paths : TimerFires(path)
  \/ Tick
  \/ \E content \in Contents : FileChanged(onekeymapPath, content)
  \/ \E content \in Contents : FileCreated(onekeymapPath, content)
  \/ FileRemoved(onekeymapPath)

SpecActivate == ActivateInit /\ [][ActivateNext]_vars

\* C38: while the extension is active, every change of the existing
\* onekeymap.json reaches its watcher (an event is raised on the watcher's
\* handle, which leads to the invocation of onOnekeymapConfigChanged), also
\* when the file was created after activation; and no watcher is started
\* before initializeIfNeeded() has completed.
InitializationCompleted == ~fresh /\ \A t \in Tx : tx[t].entry # initialize

ChangesPropagated ==
  /\ [][\A content \in Contents :
          activation = "watching" /\ FileChanged(onekeymapPath, content)
          => keymapWatcher'[onekeymapPath].events # <<>>]_vars
  /\ [](\A path \in Paths : ~Stopped(path) => InitializationCompleted)

TypeOK ==
  /\ files \in [Paths -> Contents \cup {Missing}]
  /\ syncing \in BOOLEAN
  /\ \A t \in Tx : tx[t].pc \in {"idle", "loadOnekeymapKeymap", "analyzeEditorConfig",
                                 "generateKeymap", "parseKeymap", "generateEditorConfig"}
                                \cup WriteSection
  /\ activation \in {"none", "initialize", "watching", "deactivated"}
  /\ \A path \in Paths :
       /\ keymapWatcher[path].watcher \in {"undefined", "open"}
       /\ keymapWatcher[path].handles \in Nat
       /\ Len(keymapWatcher[path].events) <= MaxEvents
       /\ \A t \in Pending(path) : t.remaining \in 0..DebounceTicks
====
